---- MODULE Spec2Model ----
(***************************************************************************)
(* Matching core of the journalist/company platform: the profile store,    *)
(* the rule-based matcher (matching/rules.py, matching/service.py), the    *)
(* match endpoints (matching/router.py) and the similarity search over the *)
(* embedding store (embeddings/service.py, embeddings/generator.py).       *)
(*                                                                         *)
(* Conventions.                                                            *)
(*  - A Python str assembled by an f-string or str.join is a sequence of   *)
(*    its pieces, in order: field values and literals are the pieces and   *)
(*    string concatenation is \o.  The empty str is << >>.                 *)
(*  - A float similarity score is the exact number of hundredths; the      *)
(*    vectors are drawn from a set whose norms are integers and whose      *)
(*    cosines are whole hundredths, so no rounding is involved.            *)
(*  - A raised Python exception is the record [raised |-> TRUE, ...].      *)
(*  - Requests run on threads, each with its own database session.  A     *)
(*    handler that reads a table and later commits a write is two steps     *)
(*    (begin, commit) with the values it read kept in calls[t]; the same    *)
(*    handler run alone is one action.                                      *)
(***************************************************************************)
EXTENDS Integers, Sequences, FiniteSets, TLC

VARIABLES users, topics, jprofiles, cprofiles, embeddings, feedback, resp,
          _model, _use_fallback, calls

\* The module globals of embeddings/generator.py.
generator == <<_model, _use_fallback>>

vars == <<users, topics, jprofiles, cprofiles, embeddings, feedback, resp,
          _model, _use_fallback, calls>>

(***************************************************************************)
(* Bounds of the model.                                                    *)
(***************************************************************************)
MaxPage == 3
MaxPageSize == 2
MaxLimit == 2
MaxReasonTopics == 3
MaxOverlapLen == 2

(***************************************************************************)
(* Users (users/models.py).  A user has one of the user types; the model   *)
(* has two journalist users, two company users and an admin.               *)
(***************************************************************************)
JUsers == {"j1", "j2"}
CUsers == {"c1", "c2"}
Admins == {"a1"}

\* The registered journalists and companies (the users table) of a run:
\* registration is outside the matching core, so a run starts from one of
\* these tables and keeps it.  The admin account exists in every run.
UserTables == {{"j1", "j2", "c1"}, {"j1", "c1", "c2"}}

UserType(u) ==
    IF u \in JUsers THEN "journalist" ELSE IF u \in CUsers THEN "company" ELSE "admin"

\* is_admin (users/service.py).
is_admin(user) == UserType(user) = "admin"

\* Order in which an unordered query returns the rows of a profile table.
JScanOrder == <<"j1", "j2">>
CScanOrder == <<"c1", "c2">>

\* Primary key of the profile row owned by a user (a fresh uuid in the code).
ProfileId(u) == "p-" \o u

None == "None"

\* Requests run on the threads of the server's pool; calls holds, per
\* thread, the call it is in the middle of.
Threads == {"t1", "t2"}
Idle == [op |-> "idle", pc |-> "done"]

\* A thread takes a new call when its last one has ended.
Free(t) == calls[t].pc = "done"

(***************************************************************************)
(* Generic helpers.                                                        *)
(***************************************************************************)
Min(a, b) == IF a < b THEN a ELSE b
Max(a, b) == IF a > b THEN a ELSE b

SeqToSet(s) == {s[i] : i \in DOMAIN s}

NoDup(s) == \A i, k \in DOMAIN s : i # k => s[i] # s[k]

\* The sequences that list every element of S exactly once.
Perms(S) == {s \in [1..Cardinality(S) -> S] : NoDup(s)}

PySlice_from_start(s, start, end) ==
    LET n == Len(s)
        hi == Min(Max(end - start, 0), n)
    IN  IF 0 < hi THEN SubSeq(s, 1, hi) ELSE << >>

PySlice_through_end(s, start, end) ==
    LET n == Len(s)
        lo == IF start < 0 THEN Max(start + n, 0) ELSE Min(start, n)
        hi == IF end + 1 < 0 THEN Max(end + 1 + n, 0) ELSE Min(end + 1, n)
    IN  IF lo < hi THEN SubSeq(s, lo + 1, hi) ELSE << >>

\* Python's s[start:end] on a list, negative indices included.
PySlice(s, start, end) ==
    LET n == Len(s)
        lo == IF start < 0 THEN Max(start + n, 0) ELSE Min(start, n)
        hi == IF end < 0 THEN Max(end + n, 0) ELSE Min(end, n)
    IN  IF lo < hi THEN SubSeq(s, lo + 1, hi) ELSE << >>

\* Python's sep.join(parts) where every part and sep is a str.
RECURSIVE Join(_, _)
Join(sep, parts) ==
    IF Len(parts) = 0 THEN << >>
    ELSE IF Len(parts) = 1 THEN parts[1]
    ELSE parts[1] \o sep \o Join(sep, Tail(parts))

\* x occurs as a piece of the str s.
Contains(s, x) == \E i \in DOMAIN s : s[i] = x

(***************************************************************************)
(* Topic taxonomy (topics/models.py, topics/service.py).  The topic table  *)
(* holds the first two seed topics; a topic id is its row number.          *)
(***************************************************************************)
SEED_TOPICS ==
    << <<"artificial-intelligence", "Artificial Intelligence", "technology">>,
       <<"machine-learning", "Machine Learning", "technology">>,
       <<"cybersecurity", "Cybersecurity", "technology">>,
       <<"cloud-computing", "Cloud Computing", "technology">>,
       <<"blockchain", "Blockchain", "technology">> >>

TopicIds == {1, 2}

Topic(t) == [id |-> t, name |-> SEED_TOPICS[t][1], display_name |-> SEED_TOPICS[t][2]]

\* A row of the topics table; the primary key (a fresh uuid in the code) is
\* the row's position in the table, which never shrinks.
TopicRow(id, name, display_name, category) ==
    [id |-> id, name |-> name, display_name |-> display_name, category |-> category]

\* The topics table once the application has started: lifespan (main.py) has
\* created the tables and run seed_topics on them.
SeededTopics ==
    [i \in DOMAIN SEED_TOPICS |->
        TopicRow(i, SEED_TOPICS[i][1], SEED_TOPICS[i][2], SEED_TOPICS[i][3])]

\* TopicBrief.model_validate(t): the id, name and display_name of a topic.
TopicBrief(t) == [id |-> t.id, name |-> t.name, display_name |-> t.display_name]

\* get_topics_by_ids: the rows whose id is among topic_ids.  The query has no
\* ORDER BY, so every order of the selected rows is a possible result.
get_topics_by_ids(topic_ids) ==
    IF topic_ids = {} THEN {<< >>}
    ELSE {[i \in DOMAIN p |-> Topic(p[i])] : p \in Perms(topic_ids \cap TopicIds)}

(***************************************************************************)
(* Topic service and endpoints (topics/service.py, topics/router.py).      *)
(***************************************************************************)
get_topic_by_name_none(name) == 0

\* get_topic_by_name: the first row with the name; 0 stands for None.
get_topic_by_name(name) ==
    LET hits == {i \in DOMAIN topics : topics[i].name = name}
    IN  IF hits = {} THEN 0 ELSE CHOOSE i \in hits : \A k \in hits : i <= k

\* name = Column(String(100), unique=True, ...): a second row of the same name
\* is refused by the database; the commit raises IntegrityError.
NameViolation(rows) ==
    \E i, k \in DOMAIN rows : i # k /\ rows[i].name = rows[k].name

\* create_topic before its commit: the table with the new row added.
create_topic(topic_data) ==
    Append(topics, TopicRow(Len(topics) + 1, topic_data.name,
                            topic_data.display_name, topic_data.category))

\* seed_topics: every seed whose name get_topic_by_name does not find is
\* added (the lookup sees the rows added before it), then one commit.
seed_topics ==
    LET Missing(i) == get_topic_by_name(SEED_TOPICS[i][1]) = 0
        F[i \in 0..Len(SEED_TOPICS)] ==
            IF i = 0 THEN [rows |-> topics, created |-> 0]
            ELSE IF Missing(i)
            THEN [rows |-> Append(F[i - 1].rows,
                              TopicRow(Len(F[i - 1].rows) + 1, SEED_TOPICS[i][1],
                                       SEED_TOPICS[i][2], SEED_TOPICS[i][3])),
                  created |-> F[i - 1].created + 1]
            ELSE F[i - 1]
        r == F[Len(SEED_TOPICS)]
    IN  IF NameViolation(r.rows)
        THEN [raised |-> TRUE, rows |-> topics, created |-> 0]
        ELSE [raised |-> FALSE, rows |-> r.rows, created |-> r.created]

\* lifespan (main.py): a start of the application on the existing database;
\* no request is being served.
lifespan ==
    /\ \A t \in Threads : Free(t)
    /\ topics' = seed_topics.rows
    /\ resp' = [op |-> "seed_topics", status |-> 0, raised |-> seed_topics.raised,
                created |-> seed_topics.created]
    /\ UNCHANGED <<users, jprofiles, cprofiles, embeddings, feedback, generator, calls>>

TopicCall(pc, user_id, topic_data, status) ==
    [op |-> "create_new_topic", pc |-> pc, user_id |-> user_id,
     topic_data |-> topic_data, status |-> status]

\* create_new_topic up to the call of create_topic.
create_new_topic_begin(t, u, topic_data) ==
    /\ Free(t)
    /\ calls' = [calls EXCEPT ![t] =
          IF ~ is_admin(u) THEN TopicCall("done", u, topic_data, 403)
          ELSE IF get_topic_by_name(topic_data.name) # 0
          THEN TopicCall("done", u, topic_data, 409)
          ELSE TopicCall("insert", u, topic_data, 0)]
    /\ UNCHANGED <<users, topics, jprofiles, cprofiles, embeddings, feedback, resp, generator>>

\* create_topic: db.add and db.commit.
create_topic_commit(t) ==
    /\ calls[t].op = "create_new_topic"
    /\ calls[t].pc = "insert"
    /\ IF NameViolation(create_topic(calls[t].topic_data))
       THEN /\ calls' = [calls EXCEPT ![t].pc = "done", ![t].status = 500]
            /\ UNCHANGED topics
       ELSE /\ topics' = create_topic(calls[t].topic_data)
            /\ calls' = [calls EXCEPT ![t].pc = "done", ![t].status = 201]
    /\ UNCHANGED <<users, jprofiles, cprofiles, embeddings, feedback, resp, generator>>

(***************************************************************************)
(* Matching rules (matching/rules.py).                                     *)
(***************************************************************************)
get_topic_overlap_all(topics_a, topics_b) == topics_b

get_topic_overlap_first(topics_a, topics_b) ==
    LET ids_a == {topics_a[i].id : i \in DOMAIN topics_a}
        InA(t) == t.id \in ids_a
        shared == SelectSeq(topics_b, InA)
    IN  IF Len(shared) = 0 THEN << >> ELSE <<shared[1]>>

get_topic_overlap_of_b(topics_a, topics_b) ==
    LET ids_a == {topics_a[i].id : i \in DOMAIN topics_a}
    IN  IF ids_a = {} THEN << >> ELSE topics_b

get_topic_overlap(topics_a, topics_b) ==
    LET ids_a == {topics_a[i].id : i \in DOMAIN topics_a}
        InA(t) == t.id \in ids_a
    IN  SelectSeq(topics_b, InA)

journalist_is_eligible(journalist) ==
    journalist.is_accepting_pitches /\ Len(journalist.topics) > 0

company_is_eligible(company) ==
    company.is_active /\ Len(company.topics) > 0

is_match(company, journalist) ==
    IF ~ company_is_eligible(company) THEN [matched |-> FALSE, overlap |-> << >>]
    ELSE IF ~ journalist_is_eligible(journalist) THEN [matched |-> FALSE, overlap |-> << >>]
    ELSE LET overlap == get_topic_overlap(company.topics, journalist.topics)
         IN  IF Len(overlap) = 0 THEN [matched |-> FALSE, overlap |-> << >>]
             ELSE [matched |-> TRUE, overlap |-> overlap]

generate_match_reason_blank(company, journalist, matched_topics) ==
    [raised |-> FALSE, value |-> << >>]

generate_match_reason_commas(company, journalist, matched_topics) ==
    LET topic_names == [i \in DOMAIN matched_topics |-> <<matched_topics[i].display_name>>]
        n == Len(topic_names)
    IN  IF n = 0 THEN [raised |-> TRUE, value |-> <<"IndexError">>]
        ELSE [raised |-> FALSE,
              value |-> <<journalist.full_name, " at ", journalist.outlet_name, " covers ">>
                        \o Join(<<", ">>, topic_names)
                        \o <<", which aligns with ", company.company_name, "'s expertise.">>]

generate_match_reason(company, journalist, matched_topics) ==
    LET topic_names == [i \in DOMAIN matched_topics |-> <<matched_topics[i].display_name>>]
        n == Len(topic_names)
        head == <<journalist.full_name, " at ", journalist.outlet_name, " covers ">>
        tail == <<", which aligns with ", company.company_name, "'s expertise.">>
    IN  IF n = 1 THEN [raised |-> FALSE, value |-> head \o topic_names[1] \o tail]
        ELSE IF n = 2
             THEN [raised |-> FALSE,
                   value |-> head \o topic_names[1] \o <<" and ">> \o topic_names[2] \o tail]
        ELSE IF n = 0
             \* topic_names[-1] on the empty list
             THEN [raised |-> TRUE, value |-> <<"IndexError">>]
        ELSE [raised |-> FALSE,
              value |-> head \o Join(<<", ">>, SubSeq(topic_names, 1, n - 1))
                        \o <<", and ">> \o topic_names[n] \o tail]

(***************************************************************************)
(* Profile rows (journalists/models.py, companies/models.py).  The stores  *)
(* jprofiles and cprofiles map a user id to the profile row of that user;  *)
(* user_id is unique in both tables.                                       *)
(***************************************************************************)
JournalistProfile(user_id, full_name, bio, outlet_name, beat_description, is_accepting_pitches, topic_list) ==
    [id |-> ProfileId(user_id), user_id |-> user_id, full_name |-> full_name,
     bio |-> bio, outlet_name |-> outlet_name,
     beat_description |-> beat_description,
     is_accepting_pitches |-> is_accepting_pitches, topics |-> topic_list]

\* is_active is not set by create_profile: the column default True applies.
CompanyProfile(user_id, company_name, description, industry, topic_list) ==
    [id |-> ProfileId(user_id), user_id |-> user_id, company_name |-> company_name,
     description |-> description, industry |-> industry,
     is_active |-> TRUE, topics |-> topic_list]

\* The rows of a profile table in the order an unordered query returns them.
Rows(order, table) ==
    LET Present(u) == u \in DOMAIN table
        us == SelectSeq(order, Present)
    IN  [i \in DOMAIN us |-> table[us[i]]]

(***************************************************************************)
(* Request bodies.  An update body carries the set of the fields that the  *)
(* request names (model_dump(exclude_unset=True) keeps exactly those).     *)
(***************************************************************************)
FullName == [j1 |-> "Ann Lee", j2 |-> "Bob Ray"]
OutletName == [j1 |-> "Daily Post", j2 |-> "Tech Wire"]
BeatDescription == [j1 |-> "I cover AI startups", j2 |-> "I cover health policy"]
CompanyName == [c1 |-> "Acme AI", c2 |-> "Bolt Health"]
Industry == [c1 |-> "Technology", c2 |-> "Healthcare"]
Description == [c1 |-> "We build AI tools", c2 |-> "We run clinics"]

\* Topic id lists a request may carry; id 0 names no topic.
TopicIdInputs == (SUBSET TopicIds) \cup {{0, 1}}

JournalistProfileCreate(u, topicSets) ==
    {[full_name |-> FullName[u], bio |-> None, outlet_name |-> OutletName[u],
      beat_description |-> BeatDescription[u],
      is_accepting_pitches |-> a, topic_ids |-> ids] :
        a \in BOOLEAN, ids \in topicSets}

CompanyProfileCreate(u, topicSets) ==
    {[company_name |-> CompanyName[u], description |-> Description[u],
      industry |-> Industry[u], topic_ids |-> ids] : ids \in topicSets}

\* An update body: fields_set are the fields the request carries, nulls those
\* of them it carries as JSON null; a field it does not carry has its default.
JournalistProfileUpdate(topicSets) ==
    {[fields_set |-> {"is_accepting_pitches"}, nulls |-> {},
      is_accepting_pitches |-> a, topic_ids |-> {}] : a \in BOOLEAN}
    \cup {[fields_set |-> {"topic_ids"}, nulls |-> {}, is_accepting_pitches |-> FALSE,
           topic_ids |-> ids] : ids \in topicSets}
    \cup {[fields_set |-> {"is_accepting_pitches", "topic_ids"}, nulls |-> {},
           is_accepting_pitches |-> a, topic_ids |-> ids] :
             a \in BOOLEAN, ids \in topicSets}
    \cup {[fields_set |-> {}, nulls |-> {}, is_accepting_pitches |-> FALSE,
           topic_ids |-> {}]}

CompanyProfileUpdate(topicSets) ==
    {[fields_set |-> {"is_active"}, nulls |-> {}, is_active |-> a, topic_ids |-> {}] :
        a \in BOOLEAN}
    \cup {[fields_set |-> {"topic_ids"}, nulls |-> {}, is_active |-> FALSE,
           topic_ids |-> ids] : ids \in topicSets}
    \cup {[fields_set |-> {"is_active", "topic_ids"}, nulls |-> {}, is_active |-> a,
           topic_ids |-> ids] : a \in BOOLEAN, ids \in topicSets}
    \cup {[fields_set |-> {}, nulls |-> {}, is_active |-> FALSE, topic_ids |-> {}]}

\* The columns declared nullable=False that an update body can name: a commit
\* that would store NULL in one of them raises IntegrityError.
NotNullViolation(update_data) == update_data.nulls \cap update_data.fields_set # {}

(***************************************************************************)
(* Profile services (journalists/service.py, companies/service.py).        *)
(* create_profile and update_profile yield the set of rows the call can    *)
(* store: one row per order in which the topic rows can be loaded.         *)
(***************************************************************************)
journalists_create_profile(user_id, profile_data) ==
    {JournalistProfile(user_id, profile_data.full_name, profile_data.bio,
                       profile_data.outlet_name, profile_data.beat_description,
                       profile_data.is_accepting_pitches, topic_list) :
        topic_list \in get_topics_by_ids(profile_data.topic_ids)}

journalists_update_profile_dump_all(profile, update_data) ==
    {[profile EXCEPT
        !.topics = topic_list,
        !.bio = IF "bio" \in update_data.fields_set THEN update_data.bio ELSE None,
        !.is_accepting_pitches =
            IF "is_accepting_pitches" \in update_data.fields_set
            THEN update_data.is_accepting_pitches ELSE @] :
        topic_list \in IF "topic_ids" \in update_data.fields_set
                   THEN get_topics_by_ids(update_data.topic_ids)
                   ELSE {<< >>}}

journalists_update_profile(profile, update_data) ==
    {[profile EXCEPT
        !.topics = topic_list,
        !.bio = IF "bio" \in update_data.fields_set THEN update_data.bio ELSE @,
        !.is_accepting_pitches =
            IF "is_accepting_pitches" \in update_data.fields_set
            THEN update_data.is_accepting_pitches ELSE @] :
        topic_list \in IF "topic_ids" \in update_data.fields_set
                   THEN get_topics_by_ids(update_data.topic_ids)
                   ELSE {profile.topics}}

companies_create_profile(user_id, profile_data) ==
    {CompanyProfile(user_id, profile_data.company_name, profile_data.description,
                    profile_data.industry, topic_list) :
        topic_list \in get_topics_by_ids(profile_data.topic_ids)}

companies_update_profile(profile, update_data) ==
    {[profile EXCEPT
        !.topics = topic_list,
        !.description =
            IF "description" \in update_data.fields_set
            THEN update_data.description ELSE @,
        !.is_active =
            IF "is_active" \in update_data.fields_set
            THEN update_data.is_active ELSE @] :
        topic_list \in IF "topic_ids" \in update_data.fields_set
                   THEN get_topics_by_ids(update_data.topic_ids)
                   ELSE {profile.topics}}

(***************************************************************************)
(* Profile endpoints (journalists/router.py, companies/router.py).         *)
(***************************************************************************)
journalists_create_my_profile(u, profile_data) ==
    /\ IF UserType(u) # "journalist"
       THEN /\ resp' = [op |-> "journalists.create_my_profile", status |-> 403]
            /\ UNCHANGED jprofiles
       ELSE IF u \in DOMAIN jprofiles
       THEN /\ resp' = [op |-> "journalists.create_my_profile", status |-> 409]
            /\ UNCHANGED jprofiles
       ELSE /\ \E profile \in journalists_create_profile(u, profile_data) :
                 jprofiles' = (u :> profile) @@ jprofiles
            /\ resp' = [op |-> "journalists.create_my_profile", status |-> 201]
    /\ UNCHANGED <<users, topics, cprofiles, embeddings, feedback, generator, calls>>

journalists_update_my_profile(u, update_data) ==
    /\ IF UserType(u) # "journalist"
       THEN /\ resp' = [op |-> "journalists.update_my_profile", status |-> 403]
            /\ UNCHANGED jprofiles
       ELSE IF u \notin DOMAIN jprofiles
       THEN /\ resp' = [op |-> "journalists.update_my_profile", status |-> 404]
            /\ UNCHANGED jprofiles
       ELSE IF NotNullViolation(update_data)
       THEN /\ resp' = [op |-> "journalists.update_my_profile", status |-> 500]
            /\ UNCHANGED jprofiles
       ELSE /\ \E profile \in journalists_update_profile(jprofiles[u], update_data) :
                 jprofiles' = [jprofiles EXCEPT ![u] = profile]
            /\ resp' = [op |-> "journalists.update_my_profile", status |-> 200]
    /\ UNCHANGED <<users, topics, cprofiles, embeddings, feedback, generator, calls>>

companies_create_my_profile(u, profile_data) ==
    /\ IF UserType(u) # "company"
       THEN /\ resp' = [op |-> "companies.create_my_profile", status |-> 403]
            /\ UNCHANGED cprofiles
       ELSE IF u \in DOMAIN cprofiles
       THEN /\ resp' = [op |-> "companies.create_my_profile", status |-> 409]
            /\ UNCHANGED cprofiles
       ELSE /\ \E profile \in companies_create_profile(u, profile_data) :
                 cprofiles' = (u :> profile) @@ cprofiles
            /\ resp' = [op |-> "companies.create_my_profile", status |-> 201]
    /\ UNCHANGED <<users, topics, jprofiles, embeddings, feedback, generator, calls>>

companies_update_my_profile(u, update_data) ==
    /\ IF UserType(u) # "company"
       THEN /\ resp' = [op |-> "companies.update_my_profile", status |-> 403]
            /\ UNCHANGED cprofiles
       ELSE IF u \notin DOMAIN cprofiles
       THEN /\ resp' = [op |-> "companies.update_my_profile", status |-> 404]
            /\ UNCHANGED cprofiles
       ELSE IF NotNullViolation(update_data)
       THEN /\ resp' = [op |-> "companies.update_my_profile", status |-> 500]
            /\ UNCHANGED cprofiles
       ELSE /\ \E profile \in companies_update_profile(cprofiles[u], update_data) :
                 cprofiles' = [cprofiles EXCEPT ![u] = profile]
            /\ resp' = [op |-> "companies.update_my_profile", status |-> 200]
    /\ UNCHANGED <<users, topics, jprofiles, embeddings, feedback, generator, calls>>

(***************************************************************************)
(* create_my_profile called from a request thread, each thread with its    *)
(* own session.  The call is two steps: up to get_profile_by_user_id, and  *)
(* create_profile with its commit, where the database enforces the unique  *)
(* constraint on user_id.                                                  *)
(***************************************************************************)
CreateCall(op, pc, user_id, profile_data, status) ==
    [op |-> op, pc |-> pc, user_id |-> user_id, profile_data |-> profile_data,
     status |-> status]

UniqueViolation_off(table, user_id) == FALSE

\* user_id = Column(..., unique=True): a second row of the same user_id is
\* refused by the database; the commit raises IntegrityError.
UniqueViolation(table, user_id) == user_id \in DOMAIN table

create_my_profile_begin(t, op, user_type, table, u, profile_data) ==
    /\ Free(t)
    /\ calls' = [calls EXCEPT ![t] =
          IF UserType(u) # user_type
          THEN CreateCall(op, "done", u, profile_data, 403)
          ELSE IF u \in DOMAIN table
          THEN CreateCall(op, "done", u, profile_data, 409)
          ELSE CreateCall(op, "insert", u, profile_data, 0)]
    /\ UNCHANGED <<users, topics, jprofiles, cprofiles, embeddings, feedback, resp, generator>>

journalists_create_my_profile_begin(t, u, profile_data) ==
    create_my_profile_begin(t, "journalists.create_my_profile", "journalist",
                            jprofiles, u, profile_data)

companies_create_my_profile_begin(t, u, profile_data) ==
    create_my_profile_begin(t, "companies.create_my_profile", "company",
                            cprofiles, u, profile_data)

journalists_create_my_profile_commit(t) ==
    /\ calls[t].op = "journalists.create_my_profile"
    /\ calls[t].pc = "insert"
    /\ IF UniqueViolation(jprofiles, calls[t].user_id)
       THEN /\ calls' = [calls EXCEPT ![t].pc = "done", ![t].status = 500]
            /\ UNCHANGED jprofiles
       ELSE /\ \E profile \in journalists_create_profile(calls[t].user_id,
                                                         calls[t].profile_data) :
                 jprofiles' = (calls[t].user_id :> profile) @@ jprofiles
            /\ calls' = [calls EXCEPT ![t].pc = "done", ![t].status = 201]
    /\ UNCHANGED <<users, topics, cprofiles, embeddings, feedback, resp, generator>>

companies_create_my_profile_commit(t) ==
    /\ calls[t].op = "companies.create_my_profile"
    /\ calls[t].pc = "insert"
    /\ IF UniqueViolation(cprofiles, calls[t].user_id)
       THEN /\ calls' = [calls EXCEPT ![t].pc = "done", ![t].status = 500]
            /\ UNCHANGED cprofiles
       ELSE /\ \E profile \in companies_create_profile(calls[t].user_id,
                                                        calls[t].profile_data) :
                 cprofiles' = (calls[t].user_id :> profile) @@ cprofiles
            /\ calls' = [calls EXCEPT ![t].pc = "done", ![t].status = 201]
    /\ UNCHANGED <<users, topics, jprofiles, embeddings, feedback, resp, generator>>

(***************************************************************************)
(* Matching service (matching/service.py).  A result is                    *)
(* [raised, matches, total]: the page of matches and the total count.      *)
(***************************************************************************)
JournalistMatch(journalist, overlap, reason) ==
    [journalist_id |-> journalist.id, full_name |-> journalist.full_name,
     outlet_name |-> journalist.outlet_name,
     beat_description |-> journalist.beat_description,
     matched_topics |-> [i \in DOMAIN overlap |-> TopicBrief(overlap[i])],
     match_reason |-> reason]

CompanyMatch_first_topic(company, overlap, reason) ==
    [company_id |-> company.id, company_name |-> company.company_name,
     industry |-> company.industry, description |-> company.description,
     matched_topics |-> <<TopicBrief(overlap[1])>>,
     match_reason |-> reason]

CompanyMatch(company, overlap, reason) ==
    [company_id |-> company.id, company_name |-> company.company_name,
     industry |-> company.industry, description |-> company.description,
     matched_topics |-> [i \in DOMAIN overlap |-> TopicBrief(overlap[i])],
     match_reason |-> reason]

\* The loop over the candidate journalists, in query order.
JournalistMatches(company, journalists) ==
    LET F[i \in 0..Len(journalists)] ==
            IF i = 0 THEN [raised |-> FALSE, matches |-> << >>]
            ELSE LET prev == F[i - 1]
                     m == is_match(company, journalists[i])
                     reason == generate_match_reason(company, journalists[i], m.overlap)
                 IN  IF prev.raised \/ ~ m.matched THEN prev
                     ELSE IF reason.raised THEN [raised |-> TRUE, matches |-> << >>]
                     ELSE [raised |-> FALSE,
                           matches |-> Append(prev.matches,
                                         JournalistMatch(journalists[i], m.overlap,
                                                         reason.value))]
    IN  F[Len(journalists)]

\* The loop over the candidate companies, in query order.
CompanyMatches(journalist, companies) ==
    LET F[i \in 0..Len(companies)] ==
            IF i = 0 THEN [raised |-> FALSE, matches |-> << >>]
            ELSE LET prev == F[i - 1]
                     m == is_match(companies[i], journalist)
                     reason == generate_match_reason(companies[i], journalist, m.overlap)
                 IN  IF prev.raised \/ ~ m.matched THEN prev
                     ELSE IF reason.raised THEN [raised |-> TRUE, matches |-> << >>]
                     ELSE [raised |-> FALSE,
                           matches |-> Append(prev.matches,
                                         CompanyMatch(companies[i], m.overlap,
                                                      reason.value))]
    IN  F[Len(companies)]

\* The matchers with the eligibility rules left out: topic overlap alone.
find_journalists_for_company_by_topics(company_user_id, page, page_size) ==
    IF company_user_id \notin DOMAIN cprofiles
    THEN [raised |-> FALSE, matches |-> << >>, total |-> 0]
    ELSE LET company == cprofiles[company_user_id]
             Overlap(j) == get_topic_overlap(company.topics, j.topics)
             Shares(j) == Len(Overlap(j)) > 0
             hits == SelectSeq(Rows(JScanOrder, jprofiles), Shares)
             matches == [i \in DOMAIN hits |->
                            JournalistMatch(hits[i], Overlap(hits[i]),
                                generate_match_reason(company, hits[i],
                                                      Overlap(hits[i])).value)]
         IN  [raised |-> FALSE,
              matches |-> PySlice(matches, (page - 1) * page_size, page * page_size),
              total |-> Len(matches)]

find_companies_for_journalist_by_topics(journalist_user_id, page, page_size) ==
    IF journalist_user_id \notin DOMAIN jprofiles
    THEN [raised |-> FALSE, matches |-> << >>, total |-> 0]
    ELSE LET journalist == jprofiles[journalist_user_id]
             Overlap(c) == get_topic_overlap(c.topics, journalist.topics)
             Shares(c) == Len(Overlap(c)) > 0
             hits == SelectSeq(Rows(CScanOrder, cprofiles), Shares)
             matches == [i \in DOMAIN hits |->
                            CompanyMatch(hits[i], Overlap(hits[i]),
                                generate_match_reason(hits[i], journalist,
                                                      Overlap(hits[i])).value)]
         IN  [raised |-> FALSE,
              matches |-> PySlice(matches, (page - 1) * page_size, page * page_size),
              total |-> Len(matches)]

find_journalists_for_company_unrated(company_user_id, page, page_size) ==
    IF company_user_id \notin DOMAIN cprofiles
    THEN [raised |-> FALSE, matches |-> << >>, total |-> 0]
    ELSE LET company == cprofiles[company_user_id]
             Rejected(j) == \E i \in DOMAIN feedback :
                               /\ feedback[i].journalist_profile_id = j.id
                               /\ feedback[i].company_profile_id = company.id
                               /\ feedback[i].feedback_type = "not_helpful"
             IsAccepting(j) == j.is_accepting_pitches /\ ~ Rejected(j)
             journalists == SelectSeq(Rows(JScanOrder, jprofiles), IsAccepting)
             r == JournalistMatches(company, journalists)
             start == (page - 1) * page_size
             end == start + page_size
         IN  [raised |-> r.raised,
              matches |-> PySlice(r.matches, start, end),
              total |-> Len(r.matches)]

find_journalists_for_company(company_user_id, page, page_size) ==
    IF company_user_id \notin DOMAIN cprofiles
    THEN [raised |-> FALSE, matches |-> << >>, total |-> 0]
    ELSE LET company == cprofiles[company_user_id]
             IsAccepting(j) == j.is_accepting_pitches
             journalists == SelectSeq(Rows(JScanOrder, jprofiles), IsAccepting)
             r == JournalistMatches(company, journalists)
             start == (page - 1) * page_size
             end == start + page_size
         IN  [raised |-> r.raised,
              matches |-> PySlice(r.matches, start, end),
              total |-> Len(r.matches)]

find_companies_for_journalist(journalist_user_id, page, page_size) ==
    IF journalist_user_id \notin DOMAIN jprofiles
    THEN [raised |-> FALSE, matches |-> << >>, total |-> 0]
    ELSE LET journalist == jprofiles[journalist_user_id]
             IsActive(c) == c.is_active
             companies == SelectSeq(Rows(CScanOrder, cprofiles), IsActive)
             r == CompanyMatches(journalist, companies)
             start == (page - 1) * page_size
             end == start + page_size
         IN  [raised |-> r.raised,
              matches |-> PySlice(r.matches, start, end),
              total |-> Len(r.matches)]

(***************************************************************************)
(* Match endpoints (matching/router.py).  The operators give the response  *)
(* of a request in the current store; the actions record it in resp.       *)
(***************************************************************************)
MatchResults(op, matches, total, page, page_size, has_more) ==
    [op |-> op, status |-> 200, matches |-> matches, total |-> total,
     page |-> page, page_size |-> page_size, has_more |-> has_more]

HTTPException(op, status, detail) ==
    [op |-> op, status |-> status, detail |-> detail]

HasMore_inclusive(page, page_size, total) == (page * page_size) <= total

\* has_more=(page * page_size) < total
HasMore(page, page_size, total) == (page * page_size) < total

get_journalist_matches_response(u, page, page_size) ==
    LET op == "get_journalist_matches"
        r == find_journalists_for_company(u, page, page_size)
    IN  IF UserType(u) # "company"
        THEN HTTPException(op, 403, "Only companies can search for journalist matches")
        ELSE IF r.raised THEN HTTPException(op, 500, "Internal Server Error")
        ELSE IF r.total = 0 /\ page = 1 /\ u \notin DOMAIN cprofiles
        THEN HTTPException(op, 400, "Create a company profile first to find matches")
        ELSE IF r.total = 0 /\ page = 1 /\ Len(cprofiles[u].topics) = 0
        THEN HTTPException(op, 400, "Add topics to your profile to find matches")
        ELSE MatchResults(op, r.matches, r.total, page, page_size,
                          HasMore(page, page_size, r.total))

get_company_matches_response(u, page, page_size) ==
    LET op == "get_company_matches"
        r == find_companies_for_journalist(u, page, page_size)
    IN  IF UserType(u) # "journalist"
        THEN HTTPException(op, 403, "Only journalists can search for company matches")
        ELSE IF r.raised THEN HTTPException(op, 500, "Internal Server Error")
        ELSE IF r.total = 0 /\ page = 1 /\ u \notin DOMAIN jprofiles
        THEN HTTPException(op, 400, "Create a journalist profile first to find matches")
        ELSE IF r.total = 0 /\ page = 1 /\ Len(jprofiles[u].topics) = 0
        THEN HTTPException(op, 400, "Add topics to your profile to find matches")
        ELSE MatchResults(op, r.matches, r.total, page, page_size,
                          HasMore(page, page_size, r.total))

get_journalist_matches(u, page, page_size) ==
    /\ resp' = get_journalist_matches_response(u, page, page_size)
    /\ UNCHANGED <<users, topics, jprofiles, cprofiles, embeddings, feedback, generator, calls>>

get_company_matches(u, page, page_size) ==
    /\ resp' = get_company_matches_response(u, page, page_size)
    /\ UNCHANGED <<users, topics, jprofiles, cprofiles, embeddings, feedback, generator, calls>>

(***************************************************************************)
(* Feedback (feedback/models.py, feedback/service.py, feedback/router.py). *)
(* feedback is the match_feedback table, its rows in insertion order; the  *)
(* id of a row is its position (a fresh uuid in the code).  submit_feedback *)
(* runs on a request thread in two steps: up to the query for the existing *)
(* row in create_feedback, and the write with its commit.                  *)
(***************************************************************************)
FeedbackType == {"helpful", "not_helpful", "contacted", "successful"}

FeedbackCreate(journalist_profile_id, company_profile_id, feedback_type, notes) ==
    [journalist_profile_id |-> journalist_profile_id,
     company_profile_id |-> company_profile_id,
     feedback_type |-> feedback_type, notes |-> notes]

MatchFeedback(id, user_id, feedback_data) ==
    [id |-> id, user_id |-> user_id,
     journalist_profile_id |-> feedback_data.journalist_profile_id,
     company_profile_id |-> feedback_data.company_profile_id,
     feedback_type |-> feedback_data.feedback_type,
     notes |-> feedback_data.notes]

\* The first row of the user's feedback on the match, 0 when there is none.
ExistingFeedback(user_id, feedback_data) ==
    LET hits == {i \in DOMAIN feedback :
                    /\ feedback[i].user_id = user_id
                    /\ feedback[i].journalist_profile_id
                          = feedback_data.journalist_profile_id
                    /\ feedback[i].company_profile_id
                          = feedback_data.company_profile_id}
    IN  IF hits = {} THEN 0 ELSE CHOOSE i \in hits : \A k \in hits : i <= k

get_profile_by_id_any(table, profile_id) == DOMAIN table

get_profile_by_id(table, profile_id) ==
    {u \in DOMAIN table : table[u].id = profile_id}

FeedbackCall(pc, user_id, feedback_data, existing) ==
    [op |-> "submit_feedback", pc |-> pc, user_id |-> user_id,
     feedback_data |-> feedback_data, existing |-> existing]

\* The 201 response of submit_feedback: the stored row.
FeedbackResponse(row) ==
    [op |-> "submit_feedback", status |-> 201, id |-> row.id,
     feedback_type |-> row.feedback_type, notes |-> row.notes]

submit_feedback_begin(t, u, feedback_data) ==
    /\ Free(t)
    /\ IF get_profile_by_id(jprofiles, feedback_data.journalist_profile_id) = {}
       THEN /\ resp' = HTTPException("submit_feedback", 404,
                                     "Journalist profile not found")
            /\ UNCHANGED calls
       ELSE IF get_profile_by_id(cprofiles, feedback_data.company_profile_id) = {}
       THEN /\ resp' = HTTPException("submit_feedback", 404,
                                     "Company profile not found")
            /\ UNCHANGED calls
       ELSE /\ calls' = [calls EXCEPT ![t] =
                           FeedbackCall("write", u, feedback_data,
                                        ExistingFeedback(u, feedback_data))]
            /\ UNCHANGED resp
    /\ UNCHANGED <<users, topics, jprofiles, cprofiles, embeddings, feedback, generator>>

\* The write of create_feedback: the existing row is updated in place, or a
\* new row is added; the request is answered with the row.
create_feedback_commit(t) ==
    /\ calls[t].op = "submit_feedback"
    /\ calls[t].pc = "write"
    /\ feedback' =
          IF calls[t].existing # 0
          THEN [feedback EXCEPT
                  ![calls[t].existing].feedback_type
                      = calls[t].feedback_data.feedback_type,
                  ![calls[t].existing].notes = calls[t].feedback_data.notes]
          ELSE Append(feedback,
                      MatchFeedback(Len(feedback) + 1, calls[t].user_id,
                                    calls[t].feedback_data))
    /\ resp' = FeedbackResponse(
                  feedback'[IF calls[t].existing # 0 THEN calls[t].existing
                            ELSE Len(feedback) + 1])
    /\ calls' = [calls EXCEPT ![t] = Idle]
    /\ UNCHANGED <<users, topics, jprofiles, cprofiles, embeddings, generator>>

(***************************************************************************)
(* Embedding generator (embeddings/generator.py).  A vector has           *)
(* EMBEDDING_DIMENSION integer components: the model keeps two components  *)
(* where the code has 384.  The sentence model (MODEL_NAME) and the hash   *)
(* fallback are two different fixed functions of the text.                 *)
(***************************************************************************)
EMBEDDING_DIMENSION == 2

\* The loaded model object that get_model keeps in _model.
SentenceTransformer == "SentenceTransformer"

ZeroVector == [i \in 1..EMBEDDING_DIMENSION |-> 0]

\* Pieces of text that str.strip() removes.
Whitespace == {" ", "  ", "\t", "\n"}

IsBlank_empty_only(text) == text = << >>

\* not text or not text.strip()
IsBlank(text) == \A i \in DOMAIN text : text[i] \in Whitespace \cup {""}

Encode(text) ==
    IF Contains(text, FullName.j1) THEN <<3, 4>>
    ELSE IF Contains(text, FullName.j2) THEN <<3, -4>>
    ELSE IF Contains(text, CompanyName.c1) THEN <<1, 0>>
    ELSE IF Contains(text, CompanyName.c2) THEN <<4, 3>>
    ELSE <<0, 1>>

\* sha256 of the text and the component index, scaled into [-1, 1].
HashValue(text, i) ==
    LET v == IF Contains(text, FullName.j1) THEN <<4, 3>>
             ELSE IF Contains(text, FullName.j2) THEN <<-4, 3>>
             ELSE IF Contains(text, CompanyName.c1) THEN <<0, 1>>
             ELSE IF Contains(text, CompanyName.c2) THEN <<3, 4>>
             ELSE <<1, 0>>
    IN  v[((i - 1) % 2) + 1]

_hash_based_embedding_short(text) ==
    [i \in 1..(EMBEDDING_DIMENSION - 1) |-> HashValue(text, i)]

_hash_based_embedding(text) ==
    [i \in 1..EMBEDDING_DIMENSION |-> HashValue(text, i)]

\* The branch get_model takes on the globals it reads.
GetModelBranch_retry ==
    IF _model = None THEN "load"
    ELSE IF _use_fallback THEN "fallback"
    ELSE "loaded"

GetModelBranch ==
    IF _use_fallback THEN "fallback"
    ELSE IF _model = None THEN "load"
    ELSE "loaded"

\* The try block of get_model: SentenceTransformer(MODEL_NAME) returns and
\* is kept in _model, or raises and the fallback is switched on for good.
\* Each outcome is the model returned and the globals left.
LoadModel ==
    {[model |-> SentenceTransformer, _model |-> SentenceTransformer,
      _use_fallback |-> _use_fallback],
     [model |-> None, _model |-> _model, _use_fallback |-> TRUE]}

\* What a call of get_model that runs alone can do in the current state.
get_model ==
    IF GetModelBranch = "fallback"
    THEN {[model |-> None, _model |-> _model, _use_fallback |-> _use_fallback]}
    ELSE IF GetModelBranch = "load"
    THEN LoadModel
    ELSE {[model |-> _model, _model |-> _model, _use_fallback |-> _use_fallback]}

\* model.encode(text).tolist(): the vector, or the error the backend raises.
ModelEncode(text) ==
    {[raised |-> FALSE, value |-> Encode(text)],
     [raised |-> TRUE, value |-> <<"RuntimeError">>]}

\* The part of generate_embedding after get_model returned model.
EmbedWith(model, text) ==
    IF model # None
    THEN ModelEncode(text)
    ELSE {[raised |-> FALSE, value |-> _hash_based_embedding(text)]}

\* What a call of generate_embedding can do in the current generator state:
\* [raised, value] with the globals it leaves.
generate_embedding(text) ==
    IF IsBlank(text)
    THEN {[raised |-> FALSE, value |-> ZeroVector,
           _model |-> _model, _use_fallback |-> _use_fallback]}
    ELSE UNION {{[raised |-> r.raised, value |-> r.value,
                  _model |-> g._model, _use_fallback |-> g._use_fallback] :
                    r \in EmbedWith(g.model, text)} : g \in get_model}

(***************************************************************************)
(* generate_embedding called from a request thread.  The call is two       *)
(* steps: up to the reads of the globals in get_model, and the load of the *)
(* model, which takes long and lets other threads run meanwhile.           *)
(***************************************************************************)
GenCall(pc, text, result) ==
    [op |-> "generate_embedding", pc |-> pc, text |-> text, result |-> result]

NoResult == [raised |-> FALSE, value |-> << >>]

generate_embedding_begin(t, text) ==
    /\ Free(t)
    /\ IF IsBlank(text)
       THEN calls' = [calls EXCEPT ![t] =
                        GenCall("done", text, [raised |-> FALSE, value |-> ZeroVector])]
       ELSE IF GetModelBranch = "load"
       THEN calls' = [calls EXCEPT ![t] = GenCall("load", text, NoResult)]
       ELSE \E g \in get_model : \E r \in EmbedWith(g.model, text) :
               calls' = [calls EXCEPT ![t] = GenCall("done", text, r)]
    /\ UNCHANGED <<users, topics, jprofiles, cprofiles, embeddings, feedback, resp, generator>>

generate_embedding_load(t) ==
    /\ calls[t].op = "generate_embedding"
    /\ calls[t].pc = "load"
    /\ \E g \in LoadModel : \E r \in EmbedWith(g.model, calls[t].text) :
          /\ _model' = g._model
          /\ _use_fallback' = g._use_fallback
          /\ calls' = [calls EXCEPT ![t] = GenCall("done", calls[t].text, r)]
    /\ UNCHANGED <<users, topics, jprofiles, cprofiles, embeddings, feedback, resp>>

Dot(a, b) == a[1] * b[1] + a[2] * b[2]

\* np.linalg.norm on a vector whose norm is an integer.
Norm(a) == CHOOSE n \in 0..(Dot(a, a)) : n * n = Dot(a, a)

cosine_similarity_zero_is_one(vec_a, vec_b) ==
    LET norm_a == Norm(vec_a)
        norm_b == Norm(vec_b)
    IN  IF norm_a = 0 \/ norm_b = 0 THEN 100
        ELSE (Dot(vec_a, vec_b) * 100) \div (norm_a * norm_b)

\* The score in hundredths.
cosine_similarity(vec_a, vec_b) ==
    LET norm_a == Norm(vec_a)
        norm_b == Norm(vec_b)
    IN  IF norm_a = 0 \/ norm_b = 0 THEN 0
        ELSE (Dot(vec_a, vec_b) * 100) \div (norm_a * norm_b)

build_profile_text_journalist(full_name, outlet_name, beat_description, bio) ==
    LET parts == << <<full_name, " is a journalist at ", outlet_name, ".">>,
                    <<"Beat: ", beat_description>> >>
    IN  Join(<<" ">>, IF bio # None /\ bio # ""
                      THEN Append(parts, <<"Bio: ", bio>>) ELSE parts)

build_profile_text_company(company_name, industry, description) ==
    LET parts == << <<company_name, " is a company in the ", industry, " industry.">> >>
    IN  Join(<<" ">>, IF description # None /\ description # ""
                      THEN Append(parts, <<"Description: ", description>>) ELSE parts)

(***************************************************************************)
(* Embedding store and service (embeddings/models.py,                      *)
(* embeddings/service.py).  embeddings is the profile_embeddings table,    *)
(* its rows in insertion order.                                            *)
(***************************************************************************)
ProfileEmbedding(profile_type, profile_id, source_text, embedding) ==
    [profile_type |-> profile_type, profile_id |-> profile_id,
     source_text |-> source_text, embedding |-> embedding]

\* Index of the first row of a profile's embedding, 0 when there is none.
EmbeddingIndex(profile_type, profile_id) ==
    LET hits == {i \in DOMAIN embeddings :
                    /\ embeddings[i].profile_type = profile_type
                    /\ embeddings[i].profile_id = profile_id}
    IN  IF hits = {} THEN 0 ELSE CHOOSE i \in hits : \A k \in hits : i <= k

\* The store after the write and commit of an upsert whose get_embedding
\* returned existing: the index of the row, 0 for None.
WriteEmbedding(existing, profile_type, profile_id, source_text, embedding_vector) ==
    IF existing # 0
    THEN [embeddings EXCEPT ![existing].embedding = embedding_vector,
                            ![existing].source_text = source_text]
    ELSE Append(embeddings,
                ProfileEmbedding(profile_type, profile_id, source_text,
                                 embedding_vector))

\* The store after an upsert that ran alone stored embedding_vector.
UpsertEmbedding(profile_type, profile_id, source_text, embedding_vector) ==
    WriteEmbedding(EmbeddingIndex(profile_type, profile_id), profile_type,
                   profile_id, source_text, embedding_vector)

\* A whole upsert call that runs alone; an error of generate_embedding ends
\* the call before anything is written.
Upsert(op, profile_type, profile_id, source_text) ==
    /\ \E g \in generate_embedding(source_text) :
          /\ _model' = g._model
          /\ _use_fallback' = g._use_fallback
          /\ resp' = [op |-> op, status |-> 0, raised |-> g.raised]
          /\ embeddings' = IF g.raised THEN embeddings
                           ELSE UpsertEmbedding(profile_type, profile_id,
                                                source_text, g.value)
    /\ UNCHANGED <<users, topics, jprofiles, cprofiles, feedback, calls>>

upsert_journalist_embedding(journalist) ==
    Upsert("upsert_journalist_embedding", "journalist", journalist.id,
           build_profile_text_journalist(journalist.full_name,
               journalist.outlet_name, journalist.beat_description,
               journalist.bio))

upsert_company_embedding(company) ==
    Upsert("upsert_company_embedding", "company", company.id,
           build_profile_text_company(company.company_name,
               company.industry, company.description))

(***************************************************************************)
(* An upsert called from a request thread, each thread with its own        *)
(* session.  The call is two steps: up to get_embedding (the text, the     *)
(* vector and the read of the existing row), and the write with its        *)
(* commit.  What the thread read stays in its frame between the steps.     *)
(***************************************************************************)
UpsertCall(op, pc, profile_type, profile_id, source_text, embedding_vector, existing, raised) ==
    [op |-> op, pc |-> pc, profile_type |-> profile_type,
     profile_id |-> profile_id, source_text |-> source_text,
     embedding_vector |-> embedding_vector, existing |-> existing,
     raised |-> raised]

upsert_embedding_begin(t, op, profile_type, profile_id, source_text) ==
    /\ Free(t)
    /\ \E g \in generate_embedding(source_text) :
          /\ _model' = g._model
          /\ _use_fallback' = g._use_fallback
          /\ calls' = [calls EXCEPT ![t] =
                IF g.raised
                THEN UpsertCall(op, "done", profile_type, profile_id,
                                source_text, << >>, 0, TRUE)
                ELSE UpsertCall(op, "write", profile_type, profile_id,
                                source_text, g.value,
                                EmbeddingIndex(profile_type, profile_id), FALSE)]
    /\ UNCHANGED <<users, topics, jprofiles, cprofiles, embeddings, feedback, resp>>

upsert_journalist_embedding_begin(t, journalist) ==
    upsert_embedding_begin(t, "upsert_journalist_embedding", "journalist",
        journalist.id,
        build_profile_text_journalist(journalist.full_name,
            journalist.outlet_name, journalist.beat_description, journalist.bio))

upsert_company_embedding_begin(t, company) ==
    upsert_embedding_begin(t, "upsert_company_embedding", "company", company.id,
        build_profile_text_company(company.company_name, company.industry,
                                   company.description))

upsert_embedding_commit(t) ==
    /\ calls[t].op \in {"upsert_journalist_embedding", "upsert_company_embedding"}
    /\ calls[t].pc = "write"
    /\ embeddings' = WriteEmbedding(calls[t].existing, calls[t].profile_type,
                                    calls[t].profile_id, calls[t].source_text,
                                    calls[t].embedding_vector)
    /\ calls' = [calls EXCEPT ![t].pc = "done"]
    /\ UNCHANGED <<users, topics, jprofiles, cprofiles, feedback, resp, generator>>

\* The embedding rows of one profile type, in table order.
EmbeddingsOfType(profile_type) ==
    LET OfType(e) == e.profile_type = profile_type
    IN  SelectSeq(embeddings, OfType)

SortBySimilarity_ascending(results) ==
    LET Insert(sorted, x) ==
            LET k == Cardinality({i \in DOMAIN sorted : sorted[i].score <= x.score})
            IN  SubSeq(sorted, 1, k) \o <<x>> \o SubSeq(sorted, k + 1, Len(sorted))
        F[i \in 0..Len(results)] ==
            IF i = 0 THEN << >> ELSE Insert(F[i - 1], results[i])
    IN  F[Len(results)]

\* list.sort(key=lambda x: x[1], reverse=True): stable, descending by score.
SortBySimilarity(results) ==
    LET Insert(sorted, x) ==
            LET k == Cardinality({i \in DOMAIN sorted : sorted[i].score >= x.score})
            IN  SubSeq(sorted, 1, k) \o <<x>> \o SubSeq(sorted, k + 1, Len(sorted))
        F[i \in 0..Len(results)] ==
            IF i = 0 THEN << >> ELSE Insert(F[i - 1], results[i])
    IN  F[Len(results)]

MeetsThreshold_strict(similarity, min_similarity) == similarity > min_similarity

\* if similarity >= min_similarity
MeetsThreshold(similarity, min_similarity) == similarity >= min_similarity

\* The (profile, score) pairs collected by the scan, before sort and cut.
SimilarJournalistResults(company_id, min_similarity) ==
    LET ci == EmbeddingIndex("company", company_id)
        company_vec == embeddings[ci].embedding
        journalist_embeddings == EmbeddingsOfType("journalist")
        F[i \in 0..Len(journalist_embeddings)] ==
            IF i = 0 THEN << >>
            ELSE LET j_emb == journalist_embeddings[i]
                     similarity == cosine_similarity(company_vec, j_emb.embedding)
                     found == {u \in DOMAIN jprofiles : jprofiles[u].id = j_emb.profile_id}
                 IN  IF MeetsThreshold(similarity, min_similarity)
                        /\ found # {}
                        /\ jprofiles[CHOOSE u \in found : TRUE].is_accepting_pitches
                     THEN Append(F[i - 1],
                                 [profile |-> jprofiles[CHOOSE u \in found : TRUE],
                                  score |-> similarity])
                     ELSE F[i - 1]
    IN  IF ci = 0 THEN << >> ELSE F[Len(journalist_embeddings)]

SimilarCompanyResults(journalist_id, min_similarity) ==
    LET ji == EmbeddingIndex("journalist", journalist_id)
        journalist_vec == embeddings[ji].embedding
        company_embeddings == EmbeddingsOfType("company")
        F[i \in 0..Len(company_embeddings)] ==
            IF i = 0 THEN << >>
            ELSE LET c_emb == company_embeddings[i]
                     similarity == cosine_similarity(journalist_vec, c_emb.embedding)
                     found == {u \in DOMAIN cprofiles : cprofiles[u].id = c_emb.profile_id}
                 IN  IF MeetsThreshold(similarity, min_similarity)
                        /\ found # {}
                        /\ cprofiles[CHOOSE u \in found : TRUE].is_active
                     THEN Append(F[i - 1],
                                 [profile |-> cprofiles[CHOOSE u \in found : TRUE],
                                  score |-> similarity])
                     ELSE F[i - 1]
    IN  IF ji = 0 THEN << >> ELSE F[Len(company_embeddings)]

find_similar_journalists(company_id, min_similarity, limit) ==
    PySlice(SortBySimilarity(SimilarJournalistResults(company_id, min_similarity)),
            0, limit)

find_similar_companies(journalist_id, min_similarity, limit) ==
    PySlice(SortBySimilarity(SimilarCompanyResults(journalist_id, min_similarity)),
            0, limit)

(***************************************************************************)
(* Similarity endpoints (matching/router.py).                              *)
(***************************************************************************)
SimilarJournalistMatch(journalist, score, profile) ==
    [journalist_id |-> journalist.id, full_name |-> journalist.full_name,
     outlet_name |-> journalist.outlet_name,
     beat_description |-> journalist.beat_description,
     similarity_score |-> score,
     match_reason |-> <<"Profile similarity: ", ToString(score),
                        "% match based on semantic analysis of ",
                        journalist.full_name, "'s beat and ",
                        profile.company_name, "'s description.">>]

SimilarCompanyMatch(company, score, profile) ==
    [company_id |-> company.id, company_name |-> company.company_name,
     industry |-> company.industry, description |-> company.description,
     similarity_score |-> score,
     match_reason |-> <<"Profile similarity: ", ToString(score),
                        "% match based on semantic analysis of ",
                        company.company_name, "'s profile and ",
                        profile.full_name, "'s beat.">>]

SimilarMatchResults(op, matches) ==
    [op |-> op, status |-> 200, matches |-> matches, total |-> Len(matches)]

get_similar_journalists_response(u, min_similarity, limit) ==
    LET op == "get_similar_journalists"
    IN  IF UserType(u) # "company"
        THEN HTTPException(op, 403, "Only companies can search for similar journalists")
        ELSE IF u \notin DOMAIN cprofiles
        THEN HTTPException(op, 400, "Create a company profile first")
        ELSE LET profile == cprofiles[u]
                 results == find_similar_journalists(profile.id, min_similarity, limit)
             IN  SimilarMatchResults(op,
                    [i \in DOMAIN results |->
                        SimilarJournalistMatch(results[i].profile, results[i].score,
                                               profile)])

get_similar_companies_response(u, min_similarity, limit) ==
    LET op == "get_similar_companies"
    IN  IF UserType(u) # "journalist"
        THEN HTTPException(op, 403, "Only journalists can search for similar companies")
        ELSE IF u \notin DOMAIN jprofiles
        THEN HTTPException(op, 400, "Create a journalist profile first")
        ELSE LET profile == jprofiles[u]
                 results == find_similar_companies(profile.id, min_similarity, limit)
             IN  SimilarMatchResults(op,
                    [i \in DOMAIN results |->
                        SimilarCompanyMatch(results[i].profile, results[i].score,
                                            profile)])

get_similar_journalists_filling(u, min_similarity, limit) ==
    /\ resp' = get_similar_journalists_response(u, min_similarity, limit)
    /\ embeddings' = IF u \in DOMAIN cprofiles
                      THEN UpsertEmbedding("company", cprofiles[u].id, << >>, ZeroVector)
                      ELSE embeddings
    /\ UNCHANGED <<users, topics, jprofiles, cprofiles, feedback, generator, calls>>

get_similar_journalists(u, min_similarity, limit) ==
    /\ resp' = get_similar_journalists_response(u, min_similarity, limit)
    /\ UNCHANGED <<users, topics, jprofiles, cprofiles, embeddings, feedback, generator, calls>>

get_similar_companies(u, min_similarity, limit) ==
    /\ resp' = get_similar_companies_response(u, min_similarity, limit)
    /\ UNCHANGED <<users, topics, jprofiles, cprofiles, embeddings, feedback, generator, calls>>

(***************************************************************************)
(* The store after construction is empty and no request has been answered. *)
(***************************************************************************)
Init ==
    /\ users \in UserTables
    /\ topics = SeededTopics
    /\ jprofiles = << >>
    /\ cprofiles = << >>
    /\ embeddings = << >>
    /\ feedback = << >>
    /\ resp = [op |-> "none", status |-> 0]
    /\ _model = None
    /\ _use_fallback = FALSE
    /\ calls = [t \in Threads |-> Idle]

\* Query parameters the router accepts: page >= 1 and page_size >= 1.
Pages == 1..MaxPage
PageSizes == 1..MaxPageSize

\* The body a user sends: its own names, or those of j1 / c1 when the user
\* is of the other type (the request is then refused whatever it carries).
CreateJournalist(topicSets) ==
    \E u \in users :
        \E d \in JournalistProfileCreate(IF u \in JUsers THEN u ELSE "j1", topicSets) :
            journalists_create_my_profile(u, d)

UpdateJournalist(topicSets) ==
    \E u \in users : \E d \in JournalistProfileUpdate(topicSets) :
        journalists_update_my_profile(u, d)

CreateCompany(topicSets) ==
    \E u \in users :
        \E d \in CompanyProfileCreate(IF u \in CUsers THEN u ELSE "c1", topicSets) :
            companies_create_my_profile(u, d)

UpdateCompany(topicSets) ==
    \E u \in users : \E d \in CompanyProfileUpdate(topicSets) :
        companies_update_my_profile(u, d)

GetJournalistMatches ==
    \E u \in users, page \in Pages, page_size \in PageSizes :
        get_journalist_matches(u, page, page_size)

GetCompanyMatches ==
    \E u \in users, page \in Pages, page_size \in PageSizes :
        get_company_matches(u, page, page_size)

Next ==
    \/ CreateJournalist(TopicIdInputs)
    \/ UpdateJournalist(TopicIdInputs)
    \/ CreateCompany(TopicIdInputs)
    \/ UpdateCompany(TopicIdInputs)
    \/ GetJournalistMatches
    \/ GetCompanyMatches

Spec == Init /\ [][Next]_vars

(***************************************************************************)
(* The similarity search: profiles, the embedding store and the similarity *)
(* endpoints.  Requests name no topic or the first one; min_similarity is  *)
(* in hundredths, within the range the router accepts.                     *)
(***************************************************************************)
SimTopicIdInputs == {{}, {1}}
MinSimilarities == {0, 30, 60, 96, 100}
Limits == 1..MaxLimit

UpsertJournalistEmbedding ==
    \E u \in DOMAIN jprofiles : upsert_journalist_embedding(jprofiles[u])

UpsertCompanyEmbedding ==
    \E u \in DOMAIN cprofiles : upsert_company_embedding(cprofiles[u])

GetSimilarJournalists ==
    \E u \in users, min_similarity \in MinSimilarities, limit \in Limits :
        get_similar_journalists(u, min_similarity, limit)

GetSimilarCompanies ==
    \E u \in users, min_similarity \in MinSimilarities, limit \in Limits :
        get_similar_companies(u, min_similarity, limit)

NextSim ==
    \/ CreateJournalist(SimTopicIdInputs)
    \/ UpdateJournalist(SimTopicIdInputs)
    \/ CreateCompany(SimTopicIdInputs)
    \/ UpdateCompany(SimTopicIdInputs)
    \/ UpsertJournalistEmbedding
    \/ UpsertCompanyEmbedding
    \/ GetSimilarJournalists
    \/ GetSimilarCompanies

SpecSim == Init /\ [][NextSim]_vars

(***************************************************************************)
(* Properties of the rule-based matcher.                                   *)
(***************************************************************************)
TopicIdsOf(profile) == {profile.topics[i].id : i \in DOMAIN profile.topics}

\* A page large enough to hold every candidate: the unpaginated result.
WholePage == Cardinality(JUsers \cup CUsers)

\* The match predicate of the specification, stated on the stored rows.
Qualifies(company, journalist) ==
    /\ company.is_active
    /\ TopicIdsOf(company) # {}
    /\ journalist.is_accepting_pitches
    /\ TopicIdsOf(journalist) # {}
    /\ TopicIdsOf(company) \cap TopicIdsOf(journalist) # {}

JournalistIdsIn(matches) == {matches[i].journalist_id : i \in DOMAIN matches}
CompanyIdsIn(matches) == {matches[i].company_id : i \in DOMAIN matches}

\* C1: ignoring pagination, find_journalists_for_company returns exactly the
\* journalists that satisfy the match predicate with the company, each once,
\* and find_companies_for_journalist exactly the companies that do; total is
\* the number of qualifying counterparts.
C1_ExactMatchSet ==
    /\ \A c \in DOMAIN cprofiles :
          LET r == find_journalists_for_company(c, 1, WholePage)
              want == {jprofiles[j].id : j \in {x \in DOMAIN jprofiles :
                                                  Qualifies(cprofiles[c], jprofiles[x])}}
          IN  /\ ~ r.raised
              /\ JournalistIdsIn(r.matches) = want
              /\ Len(r.matches) = Cardinality(want)
              /\ r.total = Cardinality(want)
    /\ \A j \in DOMAIN jprofiles :
          LET r == find_companies_for_journalist(j, 1, WholePage)
              want == {cprofiles[c].id : c \in {x \in DOMAIN cprofiles :
                                                  Qualifies(cprofiles[x], jprofiles[j])}}
          IN  /\ ~ r.raised
              /\ CompanyIdsIn(r.matches) = want
              /\ Len(r.matches) = Cardinality(want)
              /\ r.total = Cardinality(want)

\* A company with one qualifying journalist and one eligible journalist whose
\* topics are disjoint from the company's.
C1_Witness ==
    \E c \in DOMAIN cprofiles : \E j, k \in DOMAIN jprofiles :
        /\ Qualifies(cprofiles[c], jprofiles[j])
        /\ jprofiles[k].is_accepting_pitches
        /\ TopicIdsOf(jprofiles[k]) # {}
        /\ TopicIdsOf(jprofiles[k]) \cap TopicIdsOf(cprofiles[c]) = {}
        /\ find_journalists_for_company(c, 1, WholePage).total = 1

\* C2: a journalist whose is_accepting_pitches is false is in no page of any
\* company's find_journalists_for_company result, whatever topics they share.
C2_NotAcceptingExcluded ==
    \A c \in DOMAIN cprofiles : \A j \in DOMAIN jprofiles :
        ~ jprofiles[j].is_accepting_pitches =>
            /\ jprofiles[j].id \notin
                  JournalistIdsIn(find_journalists_for_company(c, 1, WholePage).matches)
            /\ \A page \in Pages, page_size \in PageSizes :
                  jprofiles[j].id \notin
                      JournalistIdsIn(find_journalists_for_company(c, page, page_size).matches)

\* An update has just been accepted and a journalist that is not accepting
\* pitches shares a topic with an eligible company.
C2_Witness ==
    /\ resp.op = "journalists.update_my_profile"
    /\ resp.status = 200
    /\ \E c \in DOMAIN cprofiles : \E j \in DOMAIN jprofiles :
          /\ ~ jprofiles[j].is_accepting_pitches
          /\ company_is_eligible(cprofiles[c])
          /\ TopicIdsOf(jprofiles[j]) \cap TopicIdsOf(cprofiles[c]) # {}

\* C3: a company whose is_active is false is in no page of any journalist's
\* find_companies_for_journalist result, whatever topics they share.
C3_InactiveExcluded ==
    \A j \in DOMAIN jprofiles : \A c \in DOMAIN cprofiles :
        ~ cprofiles[c].is_active =>
            /\ cprofiles[c].id \notin
                  CompanyIdsIn(find_companies_for_journalist(j, 1, WholePage).matches)
            /\ \A page \in Pages, page_size \in PageSizes :
                  cprofiles[c].id \notin
                      CompanyIdsIn(find_companies_for_journalist(j, page, page_size).matches)

\* An update has just deactivated a company that shares a topic with an
\* eligible journalist.
C3_Witness ==
    /\ resp.op = "companies.update_my_profile"
    /\ resp.status = 200
    /\ \E c \in DOMAIN cprofiles : \E j \in DOMAIN jprofiles :
          /\ ~ cprofiles[c].is_active
          /\ journalist_is_eligible(jprofiles[j])
          /\ TopicIdsOf(jprofiles[j]) \cap TopicIdsOf(cprofiles[c]) # {}

\* matched_topics lists exactly the ids of shared, none twice, and is not empty.
ExactOverlap(matched_topics, shared) ==
    /\ Len(matched_topics) > 0
    /\ {matched_topics[i].id : i \in DOMAIN matched_topics} = shared
    /\ \A i, k \in DOMAIN matched_topics :
          i # k => matched_topics[i].id # matched_topics[k].id

ProfileWithId(table, id) == table[CHOOSE u \in DOMAIN table : table[u].id = id]

\* C4: in every match of both directions matched_topics is exactly the
\* intersection, by topic id, of the two profiles' topic sets: not empty,
\* every listed topic in both profiles, no shared topic missing, none twice.
C4_MatchedTopicsAreIntersection ==
    /\ \A c \in DOMAIN cprofiles :
          LET r == find_journalists_for_company(c, 1, WholePage)
          IN  \A i \in DOMAIN r.matches :
                 ExactOverlap(r.matches[i].matched_topics,
                     TopicIdsOf(cprofiles[c]) \cap
                     TopicIdsOf(ProfileWithId(jprofiles, r.matches[i].journalist_id)))
    /\ \A j \in DOMAIN jprofiles :
          LET r == find_companies_for_journalist(j, 1, WholePage)
          IN  \A i \in DOMAIN r.matches :
                 ExactOverlap(r.matches[i].matched_topics,
                     TopicIdsOf(jprofiles[j]) \cap
                     TopicIdsOf(ProfileWithId(cprofiles, r.matches[i].company_id)))

\* A company matched with one journalist on two topics and with another on
\* one topic only, the company holding a topic that journalist lacks.
C4_Witness ==
    \E c \in DOMAIN cprofiles :
        LET r == find_journalists_for_company(c, 1, WholePage)
        IN  /\ \E i \in DOMAIN r.matches : Len(r.matches[i].matched_topics) = 2
            /\ \E i \in DOMAIN r.matches :
                  /\ Len(r.matches[i].matched_topics) = 1
                  /\ Cardinality(TopicIdsOf(cprofiles[c])) = 2

(***************************************************************************)
(* Pagination of the rule-based results.                                   *)
(***************************************************************************)
RECURSIVE SumTo(_, _)
SumTo(f, n) == IF n = 0 THEN 0 ELSE f[n] + SumTo(f, n - 1)

\* Pages 1 .. total + 1 of one requester add up to total, each page holds at
\* most page_size items and reports the same total.
PagesAddUp(Find(_, _, _), u, page_size) ==
    LET total == Find(u, 1, WholePage).total
        sizes == [p \in 1..(total + 1) |-> Len(Find(u, p, page_size).matches)]
    IN  /\ SumTo(sizes, total + 1) = total
        /\ \A p \in 1..(total + 1) :
              /\ sizes[p] <= page_size
              /\ Find(u, p, page_size).total = total
              /\ (p - 1) * page_size >= total => sizes[p] = 0

\* C9: for a fixed store, requester and page_size >= 1, every page reports
\* total = N and the items of pages 1, 2, 3, ... add up to exactly N; a page
\* holds at most page_size items and pages past the last one are empty.
C9_PagesSumToTotal ==
    \A page_size \in PageSizes :
        /\ \A c \in DOMAIN cprofiles :
              PagesAddUp(find_journalists_for_company, c, page_size)
        /\ \A j \in DOMAIN jprofiles :
              PagesAddUp(find_companies_for_journalist, j, page_size)

\* A requester with two matches: with page_size 1 they fill two pages.
C9_Witness ==
    \E c \in DOMAIN cprofiles :
        /\ find_journalists_for_company(c, 1, WholePage).total = 2
        /\ Len(find_journalists_for_company(c, 2, 1).matches) = 1

\* has_more of a successful response is page * page_size < total and tells
\* whether some later page holds a match.
HasMoreIsRight(r, Find(_, _, _), u, page, page_size) ==
    r.status = 200 =>
        /\ r.has_more <=> (page * page_size < r.total)
        /\ r.has_more <=>
              \E later \in (page + 1)..(page + r.total) :
                  Len(Find(u, later, page_size).matches) > 0

\* C10: in every successful response of get_journalist_matches and
\* get_company_matches, has_more is true exactly when page * page_size < total,
\* which is exactly when at least one match lies on a later page.
C10_HasMore ==
    /\ \A u \in users, page \in Pages, page_size \in PageSizes :
          /\ HasMoreIsRight(get_journalist_matches_response(u, page, page_size),
                            find_journalists_for_company, u, page, page_size)
          /\ HasMoreIsRight(get_company_matches_response(u, page, page_size),
                            find_companies_for_journalist, u, page, page_size)
    /\ (resp.op \in {"get_journalist_matches", "get_company_matches"}
          /\ resp.status = 200) =>
              (resp.has_more <=> (resp.page * resp.page_size < resp.total))

\* A recorded first page that holds one of two matches, so more remain, in a
\* store where the second page of the same size is the last one.
C10_Witness ==
    /\ resp.op = "get_journalist_matches"
    /\ resp.status = 200
    /\ resp.has_more
    /\ resp.page = 1
    /\ resp.total = 2
    /\ \E c \in DOMAIN cprofiles :
          /\ get_journalist_matches_response(c, 1, 1) = resp
          /\ ~ get_journalist_matches_response(c, 2, 1).has_more

(***************************************************************************)
(* Properties of the similarity search.                                    *)
(***************************************************************************)
\* min_similarity values a caller of the service may pass, the router's range
\* and one value above it.
ServiceMinSimilarities == MinSimilarities \cup {110}

\* The stored vector of a profile, when it has an embedding row.
HasEmbedding(profile_type, profile_id) ==
    \E i \in DOMAIN embeddings :
        /\ embeddings[i].profile_type = profile_type
        /\ embeddings[i].profile_id = profile_id

VectorOf(profile_type, profile_id) ==
    embeddings[CHOOSE i \in DOMAIN embeddings :
                  /\ embeddings[i].profile_type = profile_type
                  /\ embeddings[i].profile_id = profile_id].embedding

\* The journalists a search by company c must return before the cut.
SimilarJournalistsWanted(c, min_similarity) ==
    {j \in DOMAIN jprofiles :
        /\ HasEmbedding("journalist", jprofiles[j].id)
        /\ cosine_similarity(VectorOf("company", cprofiles[c].id),
                             VectorOf("journalist", jprofiles[j].id)) >= min_similarity
        /\ jprofiles[j].is_accepting_pitches}

SimilarCompaniesWanted(j, min_similarity) ==
    {c \in DOMAIN cprofiles :
        /\ HasEmbedding("company", cprofiles[c].id)
        /\ cosine_similarity(VectorOf("journalist", jprofiles[j].id),
                             VectorOf("company", cprofiles[c].id)) >= min_similarity
        /\ cprofiles[c].is_active}

ProfileIdsIn(results) == {results[i].profile.id : i \in DOMAIN results}

\* C7: before the cut to limit, find_similar_journalists returns exactly the
\* journalists with a stored embedding whose cosine similarity to the
\* company's embedding is >= min_similarity and whose profile exists with
\* is_accepting_pitches true, each once; find_similar_companies the same with
\* is_active.  Topics play no part, and a counterpart whose flag is false is
\* never returned.
C7_SimilarMembership ==
    \A min_similarity \in ServiceMinSimilarities :
        /\ \A c \in DOMAIN cprofiles :
              HasEmbedding("company", cprofiles[c].id) =>
                  LET r == find_similar_journalists(cprofiles[c].id, min_similarity,
                                                    WholePage)
                      want == SimilarJournalistsWanted(c, min_similarity)
                  IN  /\ ProfileIdsIn(r) = {jprofiles[j].id : j \in want}
                      /\ Len(r) = Cardinality(want)
                      /\ \A i \in DOMAIN r : r[i].profile.is_accepting_pitches
        /\ \A j \in DOMAIN jprofiles :
              HasEmbedding("journalist", jprofiles[j].id) =>
                  LET r == find_similar_companies(jprofiles[j].id, min_similarity,
                                                  WholePage)
                      want == SimilarCompaniesWanted(j, min_similarity)
                  IN  /\ ProfileIdsIn(r) = {cprofiles[c].id : c \in want}
                      /\ Len(r) = Cardinality(want)
                      /\ \A i \in DOMAIN r : r[i].profile.is_active

\* A company with topics finds, at a threshold equal to the score, a journalist
\* that has no topics at all, while a journalist with the same score that is
\* not accepting pitches is left out.
C7_Witness ==
    \E c \in DOMAIN cprofiles : \E j, k \in DOMAIN jprofiles :
        LET r == find_similar_journalists(cprofiles[c].id, 60, WholePage)
        IN  /\ Len(cprofiles[c].topics) > 0
            /\ Len(jprofiles[j].topics) = 0
            /\ \E i \in DOMAIN r : r[i].profile.id = jprofiles[j].id /\ r[i].score = 60
            /\ ~ jprofiles[k].is_accepting_pitches
            /\ HasEmbedding("journalist", jprofiles[k].id)
            /\ cosine_similarity(VectorOf("company", cprofiles[c].id),
                                 VectorOf("journalist", jprofiles[k].id)) = 60
            /\ jprofiles[k].id \notin ProfileIdsIn(r)

\* The list is ordered by score, non-increasing, has at most limit entries,
\* all of them among the full results, and nothing left out scores higher.
TopByScore(r, full, limit) ==
    /\ \A i, k \in DOMAIN r : i < k => r[i].score >= r[k].score
    /\ Len(r) = Min(limit, Len(full))
    /\ \A i \in DOMAIN r : \E k \in DOMAIN full : full[k] = r[i]
    /\ \A k \in DOMAIN full :
          full[k].profile.id \notin ProfileIdsIn(r) =>
              \A i \in DOMAIN r : full[k].score <= r[i].score

\* C8: the list returned by find_similar_journalists / find_similar_companies
\* is ordered by similarity score non-increasing, has at most limit entries,
\* and these are the highest-scoring qualifying profiles.
C8_SimilarOrderAndLimit ==
    \A min_similarity \in ServiceMinSimilarities, limit \in Limits :
        /\ \A c \in DOMAIN cprofiles :
              TopByScore(find_similar_journalists(cprofiles[c].id, min_similarity, limit),
                         find_similar_journalists(cprofiles[c].id, min_similarity,
                                                  WholePage),
                         limit)
        /\ \A j \in DOMAIN jprofiles :
              TopByScore(find_similar_companies(jprofiles[j].id, min_similarity, limit),
                         find_similar_companies(jprofiles[j].id, min_similarity,
                                                WholePage),
                         limit)

\* A journalist whose best-scoring company was stored last: the result puts it
\* first, and a limit of 1 leaves the lower-scoring company out.
C8_Witness ==
    \E j \in DOMAIN jprofiles :
        LET scan == SimilarCompanyResults(jprofiles[j].id, 0)
            r == find_similar_companies(jprofiles[j].id, 0, 1)
        IN  /\ Len(scan) = 2
            /\ scan[1].score < scan[2].score
            /\ Len(r) = 1
            /\ r[1] = scan[2]

NonEmptyStr(str) == \E i \in DOMAIN str : str[i] # ""

AllReasonsNonEmpty(r) ==
    r.status = 200 => \A i \in DOMAIN r.matches : NonEmptyStr(r.matches[i].match_reason)

\* C5: every entry of every list returned by the rule-based match endpoints
\* and by the similarity endpoints carries a non-empty match_reason, for
\* every store state and every page.
C5_ReasonNonEmpty ==
    \A u \in users :
        /\ \A page \in Pages, page_size \in PageSizes :
              /\ AllReasonsNonEmpty(get_journalist_matches_response(u, page, page_size))
              /\ AllReasonsNonEmpty(get_company_matches_response(u, page, page_size))
              /\ \A i \in DOMAIN find_journalists_for_company(u, page, page_size).matches :
                    NonEmptyStr(find_journalists_for_company(u, page, page_size).matches[i].match_reason)
              /\ \A i \in DOMAIN find_companies_for_journalist(u, page, page_size).matches :
                    NonEmptyStr(find_companies_for_journalist(u, page, page_size).matches[i].match_reason)
        /\ \A min_similarity \in MinSimilarities, limit \in Limits :
              /\ AllReasonsNonEmpty(get_similar_journalists_response(u, min_similarity, limit))
              /\ AllReasonsNonEmpty(get_similar_companies_response(u, min_similarity, limit))

\* A company whose rule-based matches and whose similarity matches are both
\* non-empty.
C5_Witness ==
    \E c \in DOMAIN cprofiles :
        /\ c \in users
        /\ get_journalist_matches_response(c, 1, 1).status = 200
        /\ Len(get_journalist_matches_response(c, 1, 1).matches) = 1
        /\ Len(get_similar_journalists_response(c, 30, 1).matches) = 1

(***************************************************************************)
(* generate_match_reason as a function of its arguments: a call with any   *)
(* company, journalist and topic list of up to MaxReasonTopics topics,     *)
(* repeated topics included; resp records the call and what it returned.   *)
(***************************************************************************)
ReasonTopics == {[id |-> t, name |-> SEED_TOPICS[t][1],
                  display_name |-> SEED_TOPICS[t][2]] : t \in 1..MaxReasonTopics}

ReasonTopicLists ==
    UNION {[1..n -> ReasonTopics] : n \in 0..MaxReasonTopics}

CallGenerateMatchReason ==
    /\ \E c \in CUsers, j \in JUsers, matched_topics \in ReasonTopicLists :
          LET company == CompanyProfile(c, CompanyName[c], Description[c],
                                        Industry[c], << >>)
              journalist == JournalistProfile(j, FullName[j], None, OutletName[j],
                                              BeatDescription[j], TRUE, << >>)
          IN  resp' = [op |-> "generate_match_reason",
                       company_name |-> company.company_name,
                       full_name |-> journalist.full_name,
                       matched_topics |-> matched_topics,
                       result |-> generate_match_reason(company, journalist,
                                                        matched_topics)]
    /\ UNCHANGED <<users, topics, jprofiles, cprofiles, embeddings, feedback, generator, calls>>

SpecReason == Init /\ [][CallGenerateMatchReason]_vars

\* 'A', 'A and B', 'A, B, and C': the names with their separators, in order.
EnglishList(names) ==
    LET n == Len(names)
    IN  [k \in 1..(2 * n - 1) |->
            IF k % 2 = 1 THEN names[(k + 1) \div 2]
            ELSE IF k # 2 * n - 2 THEN ", "
            ELSE IF n = 2 THEN " and " ELSE ", and "]

IsInfix(part, str) ==
    \E at \in 0..(Len(str) - Len(part)) :
        \A k \in DOMAIN part : str[at + k] = part[k]

\* The call returned a sentence that names both parties and lists the display
\* names of the matched topics, in list order, in English list grammar.
ReasonIsRight(call) ==
    LET names == [i \in DOMAIN call.matched_topics |->
                     call.matched_topics[i].display_name]
        IsTopicName(x) == \E t \in ReasonTopics : t.display_name = x
    IN  /\ ~ call.result.raised
        /\ Contains(call.result.value, call.full_name)
        /\ Contains(call.result.value, call.company_name)
        /\ IsInfix(EnglishList(names), call.result.value)
        /\ SelectSeq(call.result.value, IsTopicName) = names

\* C6 as stated: for any company, journalist and list of matched topics
\* generate_match_reason returns one sentence with both names and the topics'
\* display names as 'A', 'A and B' or 'A, B, and C'.
C6_ReasonForAnyList ==
    resp.op = "generate_match_reason" => ReasonIsRight(resp)

\* C6 amended: the same for any list of at least one matched topic.
C6_ReasonForNonEmptyList ==
    (resp.op = "generate_match_reason" /\ Len(resp.matched_topics) >= 1)
        => ReasonIsRight(resp)

\* A call with three different topics returned 'A, B, and C'.
C6_Witness ==
    /\ resp.op = "generate_match_reason"
    /\ Len(resp.matched_topics) = 3
    /\ resp.matched_topics[1] # resp.matched_topics[2]
    /\ resp.matched_topics[2] # resp.matched_topics[3]
    /\ ~ resp.result.raised
    /\ IsInfix(<<resp.matched_topics[1].display_name, ", ",
                 resp.matched_topics[2].display_name, ", and ",
                 resp.matched_topics[3].display_name>>, resp.result.value)

(***************************************************************************)
(* Embedding lifecycle and precondition errors.                            *)
(***************************************************************************)
HasFreshEmbedding(profile_type, profile_id, source_text) ==
    LET i == EmbeddingIndex(profile_type, profile_id)
    IN  i # 0 /\ embeddings[i].source_text = source_text

\* C12: once create_my_profile / update_my_profile has returned, every stored
\* journalist and company profile has an embedding record whose source_text
\* is the text built from the profile's current fields.
C12_ProfileHasFreshEmbedding ==
    /\ \A u \in DOMAIN jprofiles :
          HasFreshEmbedding("journalist", jprofiles[u].id,
              build_profile_text_journalist(jprofiles[u].full_name,
                  jprofiles[u].outlet_name, jprofiles[u].beat_description,
                  jprofiles[u].bio))
    /\ \A u \in DOMAIN cprofiles :
          HasFreshEmbedding("company", cprofiles[u].id,
              build_profile_text_company(cprofiles[u].company_name,
                  cprofiles[u].industry, cprofiles[u].description))

PreconditionReported(r, table, u, create_first, add_topics) ==
    /\ u \notin DOMAIN table => (r.status = 400 /\ r.detail = create_first)
    /\ (u \in DOMAIN table /\ Len(table[u].topics) = 0)
          => (r.status = 400 /\ r.detail = add_topics)
    /\ (r.status = 200 /\ r.total = 0 /\ r.matches = << >>)
          => (u \in DOMAIN table /\ Len(table[u].topics) >= 1)

\* C15: on both rule-based match endpoints, for every page and page_size, a
\* requester with no profile gets the 'create a profile first' error, one
\* whose profile has no topics gets the 'add topics' error, and a successful
\* empty result goes only to a requester with a profile that has a topic.
C15_PreconditionErrorsOnEveryPage ==
    \A page \in Pages, page_size \in PageSizes :
        /\ \A u \in users \cap CUsers :
              PreconditionReported(get_journalist_matches_response(u, page, page_size),
                  cprofiles, u, "Create a company profile first to find matches",
                  "Add topics to your profile to find matches")
        /\ \A u \in users \cap JUsers :
              PreconditionReported(get_company_matches_response(u, page, page_size),
                  jprofiles, u, "Create a journalist profile first to find matches",
                  "Add topics to your profile to find matches")

\* C16: a similarity search by a requester whose profile exists but has no
\* stored embedding is answered with an error, never with a successful
\* response.
C16_NoEmbeddingIsAnError ==
    \A min_similarity \in MinSimilarities, limit \in Limits :
        /\ \A u \in DOMAIN cprofiles :
              EmbeddingIndex("company", cprofiles[u].id) = 0
                => get_similar_journalists_response(u, min_similarity, limit).status # 200
        /\ \A u \in DOMAIN jprofiles :
              EmbeddingIndex("journalist", jprofiles[u].id) = 0
                => get_similar_companies_response(u, min_similarity, limit).status # 200

(***************************************************************************)
(* The generator on its own: threads call generate_embedding with empty,   *)
(* whitespace-only and ordinary texts.                                     *)
(***************************************************************************)
GenTexts == {<< >>, <<" ">>, <<"\t", "  ">>, <<"hello">>,
             <<FullName.j1, " is a journalist">>}

GenerateEmbeddingBegin ==
    \E t \in Threads, text \in GenTexts : generate_embedding_begin(t, text)

GenerateEmbeddingLoad ==
    \E t \in Threads : generate_embedding_load(t)

NextGen ==
    \/ GenerateEmbeddingBegin
    \/ GenerateEmbeddingLoad

SpecGen == Init /\ [][NextGen]_vars

Returned(t) == calls[t].op = "generate_embedding" /\ calls[t].pc = "done"

\* C17: no call of generate_embedding ends with an error of the backend:
\* every call that has ended returned a vector.
C17_BackendFailureNeverEscapes ==
    \A t \in Threads : Returned(t) => ~ calls[t].result.raised

\* C18: any two calls of generate_embedding with the same text that returned
\* a vector returned the same vector.
C18_SameTextSameVector ==
    \A t, u \in Threads :
        (/\ Returned(t) /\ Returned(u)
         /\ calls[t].text = calls[u].text
         /\ ~ calls[t].result.raised /\ ~ calls[u].result.raised)
            => calls[t].result.value = calls[u].result.value

\* C19: every vector that generate_embedding returns has exactly
\* EMBEDDING_DIMENSION components, whichever path produced it.
C19_DimensionIsConstant ==
    \A t \in Threads :
        (Returned(t) /\ ~ calls[t].result.raised)
            => Len(calls[t].result.value) = EMBEDDING_DIMENSION

\* One call returned the hash fallback's vector, another the model's.
C19_Witness ==
    \E t, u \in Threads :
        /\ Returned(t) /\ Returned(u)
        /\ calls[t].text = <<"hello">> /\ calls[u].text = <<"hello">>
        /\ ~ calls[t].result.raised /\ ~ calls[u].result.raised
        /\ calls[t].result.value # calls[u].result.value

BlankTexts == {<< >>, <<" ">>, <<"\t", "  ">>}

AllZero(v) == Len(v) = EMBEDDING_DIMENSION /\ \A i \in DOMAIN v : v[i] = 0

\* C20: a call of generate_embedding with the empty string or whitespace
\* only returns the all-zero vector of EMBEDDING_DIMENSION components at
\* once, in every generator state, and leaves _model and _use_fallback as
\* they were.
C20_BlankTextIsZeroVector ==
    [][\A t \in Threads :
          (/\ calls'[t] # calls[t]
           /\ calls'[t].op = "generate_embedding"
           /\ calls'[t].text \in BlankTexts)
              => /\ calls'[t].pc = "done"
                 /\ ~ calls'[t].result.raised
                 /\ AllZero(calls'[t].result.value)
                 /\ generator' = generator]_vars

\* Whitespace-only text got the zero vector while the model was loaded, and
\* the empty string got it while the fallback was on.
C20_Witness ==
    /\ _model = SentenceTransformer
    /\ _use_fallback
    /\ Returned("t1") /\ calls["t1"].text = <<"\t", "  ">>
    /\ Returned("t2") /\ calls["t2"].text = << >>
    /\ AllZero(calls["t1"].result.value)
    /\ AllZero(calls["t2"].result.value)

(***************************************************************************)
(* Upserts from two request threads: the profiles of j1 and c1 are created *)
(* and their embeddings upserted, the calls interleaving at their steps.   *)
(***************************************************************************)
CreateJ1Profile ==
    \E d \in JournalistProfileCreate("j1", {{}}) :
        d.is_accepting_pitches /\ journalists_create_my_profile("j1", d)

CreateC1Profile ==
    \E d \in CompanyProfileCreate("c1", {{}}) : companies_create_my_profile("c1", d)

UpsertJournalistBegin ==
    \E t \in Threads, u \in DOMAIN jprofiles :
        upsert_journalist_embedding_begin(t, jprofiles[u])

UpsertCompanyBegin ==
    \E t \in Threads, u \in DOMAIN cprofiles :
        upsert_company_embedding_begin(t, cprofiles[u])

UpsertCommit ==
    \E t \in Threads : upsert_embedding_commit(t)

NextUpsert ==
    \/ CreateJ1Profile
    \/ CreateC1Profile
    \/ UpsertJournalistBegin
    \/ UpsertCompanyBegin
    \/ UpsertCommit

SpecUpsert == Init /\ [][NextUpsert]_vars

\* The vectors generate_embedding can return for a text.
VectorsOf(text) ==
    IF text \in BlankTexts THEN {[i \in 1..EMBEDDING_DIMENSION |-> 0]}
    ELSE {Encode(text), _hash_based_embedding(text)}

\* C11: after any interleaving of upsert calls the store holds at most one
\* record per (profile_type, profile_id), and a record's vector is the one
\* generated from the record's own source_text.
C11_OneEmbeddingPerProfile ==
    /\ \A i, k \in DOMAIN embeddings :
          (/\ embeddings[i].profile_type = embeddings[k].profile_type
           /\ embeddings[i].profile_id = embeddings[k].profile_id) => i = k
    /\ \A i \in DOMAIN embeddings :
          embeddings[i].embedding \in VectorsOf(embeddings[i].source_text)

(***************************************************************************)
(* Profile creation from two request threads.                              *)
(***************************************************************************)
CreateJournalistBegin ==
    \E t \in Threads, u \in users :
        \E d \in JournalistProfileCreate(IF u \in JUsers THEN u ELSE "j1",
                                         SimTopicIdInputs) :
            journalists_create_my_profile_begin(t, u, d)

CreateCompanyBegin ==
    \E t \in Threads, u \in users :
        \E d \in CompanyProfileCreate(IF u \in CUsers THEN u ELSE "c1",
                                      SimTopicIdInputs) :
            companies_create_my_profile_begin(t, u, d)

CreateJournalistCommit ==
    \E t \in Threads : journalists_create_my_profile_commit(t)

CreateCompanyCommit ==
    \E t \in Threads : companies_create_my_profile_commit(t)

NextCreate ==
    \/ CreateJournalistBegin
    \/ CreateCompanyBegin
    \/ CreateJournalistCommit
    \/ CreateCompanyCommit

SpecCreate == Init /\ [][NextCreate]_vars

CreateOps == {"journalists.create_my_profile", "companies.create_my_profile"}

ProfileTable(op) ==
    IF op = "journalists.create_my_profile" THEN jprofiles ELSE cprofiles

\* The step that ends a create request of thread t.
CreateEnds(t) ==
    /\ calls'[t] # calls[t]
    /\ calls'[t].op \in CreateOps
    /\ calls'[t].pc = "done"

FeedbackInputs ==
    {FeedbackCreate(jp, ProfileId("c1"), x[1], x[2]) :
        jp \in {ProfileId("j1"), ProfileId("j2")},
        x \in {<<"helpful", "Great fit">>, <<"not_helpful", None>>}}

SubmitFeedbackBegin ==
    \E t \in Threads, u \in {"j1", "c1"}, d \in FeedbackInputs :
        submit_feedback_begin(t, u, d)

CreateFeedbackCommit ==
    \E t \in Threads : create_feedback_commit(t)

NextFeedback ==
    \/ CreateJ1Profile
    \/ CreateC1Profile
    \/ SubmitFeedbackBegin
    \/ CreateFeedbackCommit

SpecFeedback == Init /\ [][NextFeedback]_vars

SameMatch(a, b) ==
    /\ a.user_id = b.user_id
    /\ a.journalist_profile_id = b.journalist_profile_id
    /\ a.company_profile_id = b.company_profile_id

\* C14: after any interleaving of create_feedback calls the store holds at
\* most one record per (user_id, journalist_profile_id, company_profile_id),
\* and a submission for a triple that has a record adds none: the record
\* keeps its id and takes the submitted feedback_type and notes.
C14_OneFeedbackPerMatch ==
    [][/\ \A i, k \in DOMAIN feedback' :
             SameMatch(feedback'[i], feedback'[k]) => i = k
       /\ \A t \in Threads :
             (/\ calls[t].op = "submit_feedback" /\ calls[t].pc = "write"
              /\ calls'[t] # calls[t]
              /\ ExistingFeedback(calls[t].user_id, calls[t].feedback_data) # 0)
                => LET i == ExistingFeedback(calls[t].user_id, calls[t].feedback_data)
                   IN  /\ Len(feedback') = Len(feedback)
                       /\ feedback'[i].id = feedback[i].id
                       /\ resp'.id = feedback[i].id
                       /\ feedback'[i].feedback_type = calls[t].feedback_data.feedback_type
                       /\ feedback'[i].notes = calls[t].feedback_data.notes]_vars

(***************************************************************************)
(* The read endpoints next to the writers of every store: j1 and c1 keep   *)
(* profiles and embeddings, c1 rates its match with j1, and both users     *)
(* query the rule-based and the similarity matches.                        *)
(***************************************************************************)
QueryUsers == {"j1", "c1"}

CreateQueryJournalist ==
    \E d \in JournalistProfileCreate("j1", SimTopicIdInputs) :
        journalists_create_my_profile("j1", d)

CreateQueryCompany ==
    \E d \in CompanyProfileCreate("c1", SimTopicIdInputs) :
        companies_create_my_profile("c1", d)

RateMatchBegin ==
    \E d \in FeedbackInputs : submit_feedback_begin("t1", "c1", d)

RateMatchCommit == create_feedback_commit("t1")

QueryJournalistMatches ==
    \E u \in QueryUsers, page_size \in PageSizes : get_journalist_matches(u, 1, page_size)

QueryCompanyMatches ==
    \E u \in QueryUsers, page_size \in PageSizes : get_company_matches(u, 1, page_size)

QuerySimilarJournalists ==
    \E u \in QueryUsers, min_similarity \in {0, 100} :
        get_similar_journalists(u, min_similarity, MaxLimit)

QuerySimilarCompanies ==
    \E u \in QueryUsers, min_similarity \in {0, 100} :
        get_similar_companies(u, min_similarity, MaxLimit)

NextQuery ==
    \/ CreateQueryJournalist
    \/ CreateQueryCompany
    \/ UpsertJournalistEmbedding
    \/ UpsertCompanyEmbedding
    \/ RateMatchBegin
    \/ RateMatchCommit
    \/ QueryJournalistMatches
    \/ QueryCompanyMatches
    \/ QuerySimilarJournalists
    \/ QuerySimilarCompanies

SpecQuery == Init /\ [][NextQuery]_vars

MatchQueries ==
    {"get_journalist_matches", "get_company_matches",
     "get_similar_journalists", "get_similar_companies"}

\* C21: a step that answers a rule-based or a similarity match query, whatever
\* its input and its outcome (matches, no match, refusal, missing profile),
\* leaves the profiles with their topic lists, the topics table and the
\* embedding store as they were.
C21_MatchQueriesAreReadOnly ==
    [][resp'.op \in MatchQueries
        => /\ jprofiles' = jprofiles
           /\ cprofiles' = cprofiles
           /\ topics' = topics
           /\ embeddings' = embeddings]_vars

C21_Witness ==
    /\ resp.op = "get_similar_journalists"
    /\ resp.status = 200
    /\ Len(resp.matches) > 0
    /\ Len(embeddings) = 2

\* The writers alone: profiles, embeddings and the feedback of c1.
NextRate ==
    \/ CreateQueryJournalist
    \/ CreateQueryCompany
    \/ UpsertJournalistEmbedding
    \/ UpsertCompanyEmbedding
    \/ RateMatchBegin
    \/ RateMatchCommit

SpecRate == Init /\ [][NextRate]_vars

\* C22: a step that adds or changes a feedback row changes the result of no
\* match query: for every requester and every input, each of the two
\* rule-based and the two similarity searches returns after the step what it
\* returned before it.
C22_FeedbackNeverChangesMatches ==
    [][feedback' # feedback
        => /\ \A u \in users, page \in Pages, page_size \in PageSizes :
                /\ find_journalists_for_company(u, page, page_size)'
                      = find_journalists_for_company(u, page, page_size)
                /\ find_companies_for_journalist(u, page, page_size)'
                      = find_companies_for_journalist(u, page, page_size)
           /\ \A u \in users, min_similarity \in {0, 100}, limit \in Limits :
                /\ find_similar_journalists(ProfileId(u), min_similarity, limit)'
                      = find_similar_journalists(ProfileId(u), min_similarity, limit)
                /\ find_similar_companies(ProfileId(u), min_similarity, limit)'
                      = find_similar_companies(ProfileId(u), min_similarity, limit)]_vars

C22_Witness ==
    /\ \E i \in DOMAIN feedback : feedback[i].feedback_type = "not_helpful"
    /\ Len(find_journalists_for_company("c1", 1, 1).matches) = 1
    /\ Len(find_similar_journalists(ProfileId("c1"), 0, 1)) = 1

(***************************************************************************)
(* get_topic_overlap on its own: called with any two lists of topics, in   *)
(* any order and with repeated entries.                                    *)
(***************************************************************************)
OverlapTopicLists ==
    UNION {[1..n -> ReasonTopics] : n \in 0..MaxOverlapLen}

CallGetTopicOverlap ==
    /\ \E topics_a \in OverlapTopicLists, topics_b \in OverlapTopicLists :
          resp' = [op |-> "get_topic_overlap", topics_a |-> topics_a,
                   topics_b |-> topics_b,
                   result |-> get_topic_overlap(topics_a, topics_b)]
    /\ UNCHANGED <<users, topics, jprofiles, cprofiles, embeddings, feedback, generator, calls>>

SpecOverlap == Init /\ [][CallGetTopicOverlap]_vars

\* C23 as stated: for any two topic lists A and B, get_topic_overlap(A, B)
\* equals get_topic_overlap(B, A).
C23_OverlapCommutes ==
    resp.op = "get_topic_overlap"
        => resp.result = get_topic_overlap(resp.topics_b, resp.topics_a)

\* C23 amended: for any two topic lists A and B, get_topic_overlap(A, B) and
\* get_topic_overlap(B, A) hold the same topics (they are equal as sets; the
\* first follows the order and repetitions of B, the second those of A).
C23_OverlapCommutesAsSets ==
    resp.op = "get_topic_overlap"
        => SeqToSet(resp.result)
              = SeqToSet(get_topic_overlap(resp.topics_b, resp.topics_a))

C23_Witness ==
    /\ resp.op = "get_topic_overlap"
    /\ Len(resp.result) = 2
    /\ resp.result # get_topic_overlap(resp.topics_b, resp.topics_a)

(***************************************************************************)
(* Profile updates with every combination of carried fields: the bio (or   *)
(* description), the eligibility flag, sent as a value or as null, and the *)
(* topic ids.                                                              *)
(***************************************************************************)
NewBio == "Now covering robotics"
NewDescription == "Now selling robots"

\* One body per choice of what the request says about each field: nothing,
\* a value, or (for the flag) null.
UpdateBody(text_field, text, flag_field) ==
    {[f \in {"fields_set", "nulls", text_field, flag_field, "topic_ids"} |->
        CASE f = "fields_set" ->
                (IF t = "set" THEN {text_field} ELSE {})
                \cup (IF a = "unset" THEN {} ELSE {flag_field})
                \cup (IF ids = "unset" THEN {} ELSE {"topic_ids"})
          [] f = "nulls" -> IF a = "null" THEN {flag_field} ELSE {}
          [] f = text_field -> IF t = "set" THEN text ELSE None
          [] f = flag_field -> a = "true"
          [] OTHER -> IF ids = "first" THEN {1} ELSE {}] :
        t \in {"unset", "set"}, a \in {"unset", "true", "false", "null"},
        ids \in {"unset", "empty", "first"}}

JournalistUpdateBodies == UpdateBody("bio", NewBio, "is_accepting_pitches")
CompanyUpdateBodies == UpdateBody("description", NewDescription, "is_active")

\* The journalists and the first company keep profiles and update them.
CreateJournalistToUpdate ==
    \E u \in users \cap JUsers : \E d \in JournalistProfileCreate(u, {{}}) :
        d.is_accepting_pitches /\ journalists_create_my_profile(u, d)

UpdateJournalistFields ==
    \E u \in users \cap JUsers, d \in JournalistUpdateBodies :
        journalists_update_my_profile(u, d)

UpdateCompanyFields ==
    \E d \in CompanyUpdateBodies : companies_update_my_profile("c1", d)

NextUpdate ==
    \/ CreateJournalistToUpdate
    \/ CreateC1Profile
    \/ UpdateJournalistFields
    \/ UpdateCompanyFields

SpecUpdate == Init /\ [][NextUpdate]_vars

\* The row after is the row before merged with the body d: a carried field has
\* the body's value, the topics are those of the carried ids, and every other
\* field and the topics of a body without topic_ids are as before.
Merged(before, after, d) ==
    /\ DOMAIN after = DOMAIN before
    /\ \A f \in DOMAIN before \ {"topics"} :
          after[f] = IF f \in d.fields_set THEN d[f] ELSE before[f]
    /\ IF "topic_ids" \in d.fields_set
       THEN TopicIdsOf(after) = d.topic_ids \cap TopicIds
       ELSE after.topics = before.topics

ChangedProfiles(table, table_after) ==
    {u \in DOMAIN table : table_after[u] # table[u]}

TopicCreate ==
    {[name |-> n, display_name |-> "Custom Topic", category |-> "technology"] :
        n \in {SEED_TOPICS[1][1], "robotics", "quantum-computing"}}

CreateNewTopicBegin ==
    \E t \in Threads, u \in Admins \cup {"j1"}, topic_data \in TopicCreate :
        create_new_topic_begin(t, u, topic_data)

CreateTopicCommit ==
    \E t \in Threads : create_topic_commit(t)

NextTopics ==
    \/ CreateNewTopicBegin
    \/ CreateTopicCommit
    \/ lifespan

SpecTopics == Init /\ [][NextTopics]_vars

TopicNames == {topics[i].name : i \in DOMAIN topics}

\* A step in which thread t ends a create_new_topic call with the status.
TopicCallEnds(t, status) ==
    /\ calls'[t] # calls[t]
    /\ calls'[t].op = "create_new_topic"
    /\ calls'[t].pc = "done"
    /\ calls'[t].status = status

\* C25: no two topics ever share a name.  A create_new_topic by an admin that
\* finds its name in the table ends with 409 and does not reach the insert; a
\* call that ends with 409 or 500 adds no topic; a call that adds a topic adds
\* one of a name the table did not hold.  seed_topics on a table that holds
\* every seed name adds nothing and returns 0.
C25_TopicNamesAreUnique ==
    [][/\ ~ NameViolation(topics')
       /\ \A t \in Threads :
            /\ ( /\ calls'[t] # calls[t]
                 /\ calls'[t].op = "create_new_topic"
                 /\ is_admin(calls'[t].user_id)
                 /\ calls[t].pc = "done"
                 /\ calls'[t].topic_data.name \in TopicNames )
                  => TopicCallEnds(t, 409) /\ topics' = topics
            /\ (TopicCallEnds(t, 409) \/ TopicCallEnds(t, 500) \/ TopicCallEnds(t, 403))
                  => topics' = topics
            /\ TopicCallEnds(t, 201)
                  => /\ calls[t].topic_data.name \notin TopicNames
                     /\ topics' = Append(topics, topics'[Len(topics')])
                     /\ topics'[Len(topics')].name = calls[t].topic_data.name
       /\ ( /\ resp'.op = "seed_topics"
            /\ calls' = calls
            /\ \A i \in DOMAIN SEED_TOPICS : SEED_TOPICS[i][1] \in TopicNames )
             => /\ topics' = topics
                /\ ~ resp'.raised
                /\ resp'.created = 0]_vars

C25_Witness ==
    /\ resp.op = "seed_topics"
    /\ resp.created = 0
    /\ Len(topics) = Len(SEED_TOPICS) + 2
    /\ \E t \in Threads :
          /\ calls[t].op = "create_new_topic"
          /\ calls[t].pc = "done"
          /\ calls[t].status = 409
          /\ calls[t].topic_data.name = SEED_TOPICS[1][1]

ProfileExists(table, profile_id) ==
    \E u \in DOMAIN table : table[u].id = profile_id

\* A step in which thread t passes the checks of submit_feedback and goes on
\* to the write of create_feedback.
PassesProfileChecks(t) ==
    /\ calls'[t] # calls[t]
    /\ calls'[t].op = "submit_feedback"
    /\ calls'[t].pc = "write"

\* C26: a submit_feedback that names a journalist or a company profile id no
\* profile has never reaches the write; the request is answered 404 with the
\* detail that names the side that is missing (the journalist first), and the
\* step leaves every MatchFeedback record as it was.
C26_FeedbackOnMissingProfile ==
    [][/\ \A t \in Threads :
            PassesProfileChecks(t)
              => /\ ProfileExists(jprofiles,
                                  calls'[t].feedback_data.journalist_profile_id)
                 /\ ProfileExists(cprofiles,
                                  calls'[t].feedback_data.company_profile_id)
       /\ (resp'.op = "submit_feedback" /\ resp'.status = 404)
            => /\ feedback' = feedback
               /\ \/ /\ resp'.detail = "Journalist profile not found"
                     /\ \E d \in FeedbackInputs :
                           ~ ProfileExists(jprofiles, d.journalist_profile_id)
                  \/ /\ resp'.detail = "Company profile not found"
                     /\ \E d \in FeedbackInputs :
                           /\ ProfileExists(jprofiles, d.journalist_profile_id)
                           /\ ~ ProfileExists(cprofiles, d.company_profile_id)]_vars

C26_Witness ==
    /\ resp.op = "submit_feedback"
    /\ resp.status = 404
    /\ resp.detail = "Journalist profile not found"
    /\ Len(feedback) > 0
    /\ ProfileExists(cprofiles, ProfileId("c1"))

(***************************************************************************)
(* cosine_similarity on its own: called with any two vectors, the all-zero *)
(* vector among them.                                                      *)
(***************************************************************************)
CosineVectors ==
    {ZeroVector, <<3, 4>>, <<4, 3>>, <<1, 0>>, <<0, 1>>, <<3, -4>>, <<-4, 3>>,
     <<-3, -4>>}

CallCosineSimilarity ==
    /\ \E vec_a \in CosineVectors, vec_b \in CosineVectors :
          resp' = [op |-> "cosine_similarity", vec_a |-> vec_a, vec_b |-> vec_b,
                   result |-> cosine_similarity(vec_a, vec_b)]
    /\ UNCHANGED <<users, topics, jprofiles, cprofiles, embeddings, feedback, generator, calls>>

SpecCosine == Init /\ [][CallCosineSimilarity]_vars

\* C27: cosine_similarity returns 0.0 whenever one of its two vectors has
\* norm zero, so an all-zero vector scores 0.0 against every vector, itself
\* included.
C27_ZeroNormScoresZero ==
    resp.op = "cosine_similarity"
        => ((AllZero(resp.vec_a) \/ AllZero(resp.vec_b)) => resp.result = 0)

C27_Witness ==
    /\ resp.op = "cosine_similarity"
    /\ AllZero(resp.vec_a)
    /\ ~ AllZero(resp.vec_b)
    /\ resp.result = 0

(***************************************************************************)
(* The two directions of the rule-based matcher against each other.        *)
(***************************************************************************)
\* The entries of journalist j in the unpaginated matches of company c, and
\* those of c in the unpaginated matches of j.
EntriesOfJournalist(c, j) ==
    LET r == find_journalists_for_company(c, 1, WholePage)
    IN  {r.matches[i] : i \in {k \in DOMAIN r.matches :
                                  r.matches[k].journalist_id = jprofiles[j].id}}

EntriesOfCompany(j, c) ==
    LET r == find_companies_for_journalist(j, 1, WholePage)
    IN  {r.matches[i] : i \in {k \in DOMAIN r.matches :
                                  r.matches[k].company_id = cprofiles[c].id}}

\* C28: for every company C and journalist J with profiles, J is among the
\* unpaginated matches of C exactly when C is among the unpaginated matches
\* of J, and the two entries list the same set of matched topics.
C28_MatchingIsSymmetric ==
    \A c \in DOMAIN cprofiles, j \in DOMAIN jprofiles :
        /\ (EntriesOfJournalist(c, j) # {}) <=> (EntriesOfCompany(j, c) # {})
        /\ \A ej \in EntriesOfJournalist(c, j), ec \in EntriesOfCompany(j, c) :
              SeqToSet(ej.matched_topics) = SeqToSet(ec.matched_topics)

\* A pair matched on two topics in both directions, beside a pair of stored
\* profiles that is matched in neither.
C28_Witness ==
    /\ \E c \in DOMAIN cprofiles, j \in DOMAIN jprofiles :
          /\ \E ej \in EntriesOfJournalist(c, j) : Len(ej.matched_topics) = 2
          /\ \E ec \in EntriesOfCompany(j, c) : Len(ec.matched_topics) = 2
    /\ \E c \in DOMAIN cprofiles, j \in DOMAIN jprofiles :
          /\ EntriesOfJournalist(c, j) = {}
          /\ EntriesOfCompany(j, c) = {}

\* A step in which thread t takes a call of generate_embedding on a text that
\* is not blank.
BeginsEmbedding(t) ==
    /\ calls'[t] # calls[t]
    /\ Free(t)
    /\ calls'[t].op = "generate_embedding"
    /\ ~ IsBlank(calls'[t].text)

\* C29: the choice between the model and the hash fallback is made once.  The
\* fallback flag, once set, stays set, and a loaded model is never dropped.
\* With the flag set, get_model returns no model and touches no global, and a
\* call of generate_embedding on a non-blank text returns the hash vector of
\* the text at once, without a load.  With a model loaded and the flag not
\* set, a call is answered by that model at once, without a load.
C29_ModelChoiceIsSticky ==
    [][/\ _use_fallback => _use_fallback'
       /\ _model # None => _model' = _model
       /\ _use_fallback =>
             get_model = {[model |-> None, _model |-> _model, _use_fallback |-> TRUE]}
       /\ \A t \in Threads :
            BeginsEmbedding(t) =>
              /\ _use_fallback =>
                    /\ calls'[t].pc = "done"
                    /\ calls'[t].result
                          = [raised |-> FALSE,
                             value |-> _hash_based_embedding(calls'[t].text)]
                    /\ UNCHANGED generator
              /\ (~ _use_fallback /\ _model # None) =>
                    /\ calls'[t].pc = "done"
                    /\ calls'[t].result \in ModelEncode(calls'[t].text)
                    /\ _model' = SentenceTransformer
                    /\ UNCHANGED generator]_vars

C29_Witness ==
    /\ _use_fallback
    /\ _model = None
    /\ \A t \in Threads :
          /\ Returned(t)
          /\ calls[t].text = <<"hello">>
          /\ calls[t].result.value = _hash_based_embedding(<<"hello">>)

(***************************************************************************)
(* The pages of one requester, one after the other.                        *)
(***************************************************************************)
\* The matches of pages 1 .. n of requester u, in page order.
RECURSIVE PagesThrough(_, _, _, _)
PagesThrough(Find(_, _, _), u, page_size, n) ==
    IF n = 0 THEN << >>
    ELSE PagesThrough(Find, u, page_size, n - 1) \o Find(u, n, page_size).matches

LastPage(total, page_size) == (total + page_size - 1) \div page_size

\* Pages 1 .. ceil(N / page_size) of u hold each of the N matches once.
PagesPartition(Find(_, _, _), u, page_size) ==
    LET all == Find(u, 1, WholePage).matches
        paged == PagesThrough(Find, u, page_size, LastPage(Len(all), page_size))
    IN  /\ Len(paged) = Len(all)
        /\ NoDup(paged)
        /\ SeqToSet(paged) = SeqToSet(all)

\* C30: against an unchanged store and for one page_size, the pages
\* 1 .. ceil(N / page_size) of a requester together contain each of its N
\* matching counterparts exactly once, in both directions.
C30_PagesPartitionMatches ==
    \A page_size \in PageSizes :
        /\ \A c \in DOMAIN cprofiles :
              PagesPartition(find_journalists_for_company, c, page_size)
        /\ \A j \in DOMAIN jprofiles :
              PagesPartition(find_companies_for_journalist, j, page_size)

\* A company whose two matches fall on two pages of one item.
C30_Witness ==
    \E c \in DOMAIN cprofiles :
        /\ find_journalists_for_company(c, 1, WholePage).total = 2
        /\ Len(find_journalists_for_company(c, 1, 1).matches) = 1
        /\ Len(find_journalists_for_company(c, 2, 1).matches) = 1
        /\ find_journalists_for_company(c, 1, 1).matches
              # find_journalists_for_company(c, 2, 1).matches
====
